---- MODULE Spec2Model ----
(***************************************************************************)
(* TaskForge: the TDQ evaluation engine and the optimization loop.        *)
(*                                                                         *)
(* A task tree is kept as the sequence of its nodes in pre-order; each     *)
(* node carries its id, its depth (root 0) and its dependency list.  The   *)
(* children of a node are the following nodes one level deeper, up to the  *)
(* next node that is not deeper than it.  Scores are exact rationals       *)
(* [n |-> numerator, d |-> denominator].                                   *)
(***************************************************************************)
EXTENDS Integers, Sequences, FiniteSets, TLC

VARIABLES
    pc,             \* position of the run (which call is outstanding)
    maxIterations,  \* finalConfig.maxIterations
    targetTDQ,      \* finalConfig.targetTDQ
    currentTree,    \* optimizeTaskDecomposition: currentTree
    iteration,      \* optimizeTaskDecomposition: iteration
    history,        \* optimizeTaskDecomposition: history
    site,           \* which computeTDQ call is running: "loop", "final",
                    \* or "direct" when computeTDQ is called on its own
    acyclicity,     \* computeTDQ: acyclicity
    hierarchy,      \* computeTDQ: hierarchy
    balance,        \* computeTDQ: balance
    embeddings,     \* computeRedundancy: embeddings (kept until
                    \* computeGranularity starts)
    redundancy,     \* computeTDQ: redundancy
    scores,         \* computeGranularity: scores
    efforts,        \* computeGranularity: efforts
    granularity,    \* computeTDQ: granularity
    ratings,        \* computeExecutability: ratings
    response,       \* computeGranularity, computeExecutability: response,
                    \* <<>> when no answer is held (kept until the next
                    \* metric starts)
    executability,  \* computeTDQ: executability
    weights,        \* computeTDQ: weights
    tdqResult,      \* the TDQResult computeTDQ returned last
    refineReq,      \* the arguments of the refinement request issued last
    result,         \* the OptimizationResult returned
    nCalls,         \* external calls issued, by kind
    env             \* process.env

vars == <<pc, maxIterations, targetTDQ, currentTree, iteration, history, site,
          acyclicity, hierarchy, balance, embeddings, redundancy, scores,
          efforts, granularity, ratings, response, executability, weights,
          tdqResult, refineReq, result, nCalls, env>>

----------------------------------------------------------------------------
(* Bounds of the model *)

MaxNodes == 3        \* nodes of a tree that carries dependencies
MaxDeps == 2         \* dependency entries of a tree, over all its nodes
MaxPlainNodes == 4   \* nodes of a tree without dependencies
MaxWideNodes == 8    \* nodes of a tree without dependencies, ids all distinct
MaxFewNodes == 3     \* nodes of a tree whose ids may repeat, few dependencies
MaxFewDeps == 1      \* dependency entries of such a tree
MaxText == 5         \* tokens of a raw response handed to cleanAndParseJSON
MaxIter == 2         \* the largest maxIterations a run is configured with

----------------------------------------------------------------------------
(* Exact rational arithmetic *)

None == [none |-> TRUE]
NoTree == <<>>

\* const x = value; In(x): the value is computed once, as a const binding
\* of the source is, and handed on
Let(value, In(_)) == CHOOSE r \in {In(x) : x \in {value}} : TRUE

Abs(x) == IF x < 0 THEN -x ELSE x

\* The arithmetic is written as functions: a function is applied to values,
\* so nested sums are evaluated once each.
GCD[a \in Nat, b \in Nat] == IF b = 0 THEN a ELSE GCD[b, a % b]

LCM[a \in Nat, b \in Nat] == (a \div GCD[a, b]) * b

Rational == [n : Int, d : Nat \ {0}]

\* the fraction n/d in lowest terms
RatOf[n \in Int, d \in Nat \ {0}] ==
    [n |-> n \div GCD[Abs(n), d], d |-> d \div GCD[Abs(n), d]]

Rat(n, d) == RatOf[n, d]

RAddOf[x \in Rational, y \in Rational] ==
    RatOf[x.n * (LCM[x.d, y.d] \div x.d) + y.n * (LCM[x.d, y.d] \div y.d),
          LCM[x.d, y.d]]

RAdd(x, y) == RAddOf[x, y]

RSub(x, y) == RAddOf[x, [n |-> -y.n, d |-> y.d]]

RMulOf[x \in Rational, y \in Rational] ==
    RatOf[(x.n \div GCD[Abs(x.n), y.d]) * (y.n \div GCD[Abs(y.n), x.d]),
          (x.d \div GCD[Abs(y.n), x.d]) * (y.d \div GCD[Abs(x.n), y.d])]

RMul(x, y) == RMulOf[x, y]

RLt(x, y) == x.n * y.d < y.n * x.d
RLe(x, y) == x.n * y.d <= y.n * x.d
RGe(x, y) == RLe(y, x)
REq(x, y) == x.n * y.d = y.n * x.d

Zero == Rat(0, 1)
One == Rat(1, 1)

RMin(x, y) == IF RLt(y, x) THEN y ELSE x

----------------------------------------------------------------------------
(* Task trees *)

IdOrder == <<"root", "c1", "c2", "c3", "c4", "c5", "c6", "c7", "c8", "c9">>

SeqToSet(s) == {s[i] : i \in DOMAIN s}

\* the last node of the subtree of node i
SubtreeEnd(t, i) ==
    CHOOSE j \in i..Len(t) :
        /\ \A k \in (i+1)..j : t[k].depth > t[i].depth
        /\ (j < Len(t) => t[j+1].depth <= t[i].depth)

RECURSIVE PickSeq(_, _, _, _)
PickSeq(t, lo, hi, d) ==
    IF lo > hi THEN <<>>
    ELSE IF t[lo].depth = d THEN <<lo>> \o PickSeq(t, lo + 1, hi, d)
    ELSE PickSeq(t, lo + 1, hi, d)

\* node.children: the indices of the direct children of node i, in order
Children(t, i) == PickSeq(t, i + 1, SubtreeEnd(t, i), t[i].depth + 1)

ChildIds(t, i) == [k \in 1..Len(Children(t, i)) |-> t[Children(t, i)[k]].id]

UsedIds(t) == {t[i].id : i \in DOMAIN t}

TotalDeps(t) ==
    LET RECURSIVE sum(_)
        sum(i) == IF i = 0 THEN 0 ELSE Len(t[i].deps) + sum(i - 1)
    IN  sum(Len(t))

UniqueIds(t) == \A i, j \in DOMAIN t : t[i].id = t[j].id => i = j

NoDependencies(t) == \A i \in DOMAIN t : t[i].deps = <<>>

\* ids a dependency may name: the ids a tree can use, and one no tree uses
DepTargets == {IdOrder[k] : k \in 1..MaxNodes} \cup {"missing"}

SeqsUpTo(S, n) == UNION {[1..k -> S] : k \in 0..n}

\* A tree grows in pre-order: the next node hangs below the last node or
\* below one of its ancestors.  Ids are opaque strings compared only for
\* equality, so trees are listed up to renaming: a node reuses an id seen
\* earlier in pre-order or takes the next unused one of IdOrder.
RootNodes ==
    {[id |-> IdOrder[1], depth |-> 0, deps |-> ds] :
        ds \in SeqsUpTo(DepTargets, MaxDeps)}

NextNodes(t) ==
    {[id |-> i, depth |-> d, deps |-> ds] :
        i \in UsedIds(t) \cup {IdOrder[Cardinality(UsedIds(t)) + 1]},
        d \in 1..(t[Len(t)].depth + 1),
        ds \in SeqsUpTo(DepTargets, MaxDeps - TotalDeps(t))}

NextPlainNodes(t) == {n \in NextNodes(t) : n.deps = <<>>}

\* the nodes without dependencies, under an id of their own, that may follow
NextFreshNodes(t) ==
    {[id |-> IdOrder[Len(t) + 1], depth |-> d, deps |-> <<>>] :
        d \in 1..(t[Len(t)].depth + 1)}

----------------------------------------------------------------------------
(* Map<K, V>: keys in insertion order; set() of a present key keeps its place *)

EmptyMap == [keys |-> <<>>, val |-> <<>>]

MapHas(m, k) == k \in DOMAIN m.val

\* a map whose set() leaves a present key's value as it is
MapSetKeepFirst(m, k, v) ==
    IF MapHas(m, k) THEN m
    ELSE [keys |-> Append(m.keys, k), val |-> (k :> v) @@ m.val]

\* a map whose set() of a present key moves the key to the end
MapSetReinsert(m, k, v) ==
    IF MapHas(m, k)
    THEN [keys |-> Append(SelectSeq(m.keys, LAMBDA x : x # k), k),
          val |-> [m.val EXCEPT ![k] = v]]
    ELSE [keys |-> Append(m.keys, k), val |-> (k :> v) @@ m.val]

MapSet(m, k, v) ==
    IF MapHas(m, k)
    THEN [m EXCEPT !.val[k] = v]
    ELSE [keys |-> Append(m.keys, k), val |-> (k :> v) @@ m.val]

----------------------------------------------------------------------------
(* metrics/structural.ts *)

\* id -> node (the node is named by its pre-order index)
getAllNodes(root) ==
    LET RECURSIVE traverse(_, _)
        traverse(i, nodes) ==
            IF i > Len(root) THEN nodes
            ELSE Let(MapSet(nodes, root[i].id, i),
                     LAMBDA added : traverse(i + 1, added))
    IN  traverse(1, EmptyMap)

\* a traversal that hands its own depth on to the children
getNodeDepthsFlat(root) ==
    LET RECURSIVE traverse(_, _)
        traverse(i, depths) ==
            IF i > Len(root) THEN depths
            ELSE Let(MapSet(depths, root[i].id, 0),
                     LAMBDA added : traverse(i + 1, added))
    IN  traverse(1, EmptyMap)

\* id -> depth
getNodeDepths(root) ==
    LET RECURSIVE traverse(_, _)
        traverse(i, depths) ==
            IF i > Len(root) THEN depths
            ELSE Let(MapSet(depths, root[i].id, root[i].depth),
                     LAMBDA added : traverse(i + 1, added))
    IN  traverse(1, EmptyMap)

\* the entries of s that are in S, in order
RECURSIVE FilterSeq(_, _)
FilterSeq(s, S) ==
    IF s = <<>> THEN <<>>
    ELSE IF Head(s) \in S THEN <<Head(s)>> \o FilterSeq(Tail(s), S)
    ELSE FilterSeq(Tail(s), S)

\* an adjacency list of the decomposition edges alone
BuildGraphChildrenOnly(root, nodes) ==
    [id \in DOMAIN nodes.val |-> ChildIds(root, nodes.val[id])]

\* the adjacency list: decomposition edges, then the dependencies that
\* name an id of the tree
BuildGraph(root, nodes) ==
    [id \in DOMAIN nodes.val |->
        ChildIds(root, nodes.val[id])
            \o FilterSeq(root[nodes.val[id]].deps, DOMAIN nodes.val)]

RECURSIVE dfs(_, _, _), dfsLoop(_, _, _, _), dfsLoopRevisit(_, _, _, _)

\* lines 71-74
dfs(adj, u, st) ==
    IF st.hasCycle THEN st
    ELSE Let([st EXCEPT !.visited = @ \cup {u},
                        !.recursionStack = @ \cup {u},
                        !.entered = Append(@, u)],
             LAMBDA entered : dfsLoop(adj, u, 1, entered))

\* a loop that asks only whether v is on the stack, not whether it was visited
dfsLoopRevisit(adj, u, k, st) ==
    IF k > Len(adj[u]) THEN [st EXCEPT !.recursionStack = @ \ {u}]
    ELSE LET v == adj[u][k]
         IN  IF v \in st.recursionStack
             THEN [st EXCEPT !.hasCycle = TRUE]
             ELSE Let(dfs(adj, v, st),
                      LAMBDA after : dfsLoopRevisit(adj, u, k + 1, after))

\* lines 76-85
dfsLoop(adj, u, k, st) ==
    IF k > Len(adj[u]) THEN [st EXCEPT !.recursionStack = @ \ {u}]
    ELSE LET v == adj[u][k]
         IN  IF v \notin st.visited
             THEN Let(dfs(adj, v, st),
                      LAMBDA after : dfsLoop(adj, u, k + 1, after))
             ELSE IF v \in st.recursionStack
             THEN [st EXCEPT !.hasCycle = TRUE]
             ELSE dfsLoop(adj, u, k + 1, st)

RECURSIVE dfsRoots(_, _, _, _)
dfsRoots(adj, keys, k, st) ==
    IF k > Len(keys) THEN st
    ELSE Let(IF keys[k] \notin st.visited THEN dfs(adj, keys[k], st) ELSE st,
             LAMBDA st1 :
                IF st1.hasCycle THEN st1 ELSE dfsRoots(adj, keys, k + 1, st1))

\* lines 40-98; entered lists the ids in the order dfs entered them (no field
\* of the source's result: kept for the properties)
computeAcyclicity(root) ==
    Let(getAllNodes(root), LAMBDA nodes :
    Let(BuildGraph(root, nodes), LAMBDA adj :
    Let(dfsRoots(adj, nodes.keys, 1,
                 [visited |-> {}, recursionStack |-> {}, hasCycle |-> FALSE,
                  entered |-> <<>>]), LAMBDA st :
        [score |-> IF st.hasCycle THEN Zero ELSE One,
         details |-> [hasCycle |-> st.hasCycle],
         entered |-> st.entered])))

\* how many entries of s pass Test
CountSeq(s, Test(_)) == Cardinality({i \in DOMAIN s : Test(s[i])})

\* the comparison with >= in place of >
DeeperOrEqual(vDepth, uDepth) == vDepth >= uDepth

\* lines 121 and 132: if (vDepth > uDepth)
Deeper(vDepth, uDepth) == vDepth > uDepth

\* every dependency entry, in the tree or not
AllDeps(deps, nodes) == deps

\* lines 128-129: the dependency entries with nodes.has(depId)
ExistingDeps(deps, nodes) == FilterSeq(deps, DOMAIN nodes.val)

computeHierarchyConsistency(root) ==
    Let(getAllNodes(root), LAMBDA nodes :
    Let(getNodeDepths(root), LAMBDA depths :
    LET node(id) == nodes.val[id]
        uDepth(id) == depths.val[id]
        Total(id) ==
            Len(Children(root, node(id)))
            + Len(ExistingDeps(root[node(id)].deps, nodes))
        Consistent(id) ==
            LET childOk(c) == Deeper(depths.val[root[c].id], uDepth(id))
                depOk(depId) == MapHas(nodes, depId)
                                /\ Deeper(depths.val[depId], uDepth(id))
            IN  CountSeq(Children(root, node(id)), childOk)
                + CountSeq(root[node(id)].deps, depOk)
        RECURSIVE sumTotal(_), sumConsistent(_)
        sumTotal(k) ==
            IF k = 0 THEN 0 ELSE Total(nodes.keys[k]) + sumTotal(k - 1)
        sumConsistent(k) ==
            IF k = 0 THEN 0
            ELSE Consistent(nodes.keys[k]) + sumConsistent(k - 1)
    IN  Let(sumTotal(Len(nodes.keys)), LAMBDA totalEdges :
        Let(sumConsistent(Len(nodes.keys)), LAMBDA consistentEdges :
            IF totalEdges = 0 THEN [score |-> One]
            ELSE [score |-> Rat(consistentEdges, totalEdges),
                  details |-> [totalEdges |-> totalEdges,
                               consistentEdges |-> consistentEdges]]))))

VAR_MAX == 5

\* the child count of every node of the map, leaves included
childCountsWithLeaves(root) ==
    Let(getAllNodes(root), LAMBDA nodes :
    LET RECURSIVE collect(_)
        collect(k) ==
            IF k > Len(nodes.keys) THEN <<>>
            ELSE Let(Len(Children(root, nodes.val[nodes.keys[k]])), LAMBDA n :
                     <<n>> \o collect(k + 1))
    IN  collect(1))

\* the child counts of the nodes that have children, in map order
childCountsOf(root) ==
    Let(getAllNodes(root), LAMBDA nodes :
    LET RECURSIVE collect(_)
        collect(k) ==
            IF k > Len(nodes.keys) THEN <<>>
            ELSE Let(Len(Children(root, nodes.val[nodes.keys[k]])), LAMBDA n :
                     (IF n > 0 THEN <<n>> ELSE <<>>) \o collect(k + 1))
    IN  collect(1))

\* the sample variance (division by count - 1) in place of the population's
balanceOfSample(childCounts) ==
    LET count == Len(childCounts)
        RECURSIVE sum(_), sumSq(_)
        sum(k) == IF k = 0 THEN 0 ELSE childCounts[k] + sum(k - 1)
        sumSq(k) ==
            IF k = 0 THEN 0 ELSE childCounts[k] * childCounts[k] + sumSq(k - 1)
    IN  IF count < 2 THEN [score |-> One, details |-> [variance |-> Zero]]
        ELSE Let(Rat(count * sumSq(count) - sum(count) * sum(count),
                     count * (count - 1)), LAMBDA variance :
             [score |-> RSub(One, RMin(One, RMul(variance, Rat(1, VAR_MAX)))),
              details |-> [variance |-> variance,
                           childCounts |-> childCounts]])

\* the score computed from the child counts
balanceOf(childCounts) ==
    LET count == Len(childCounts)
        RECURSIVE sum(_), sumSq(_)
        sum(k) == IF k = 0 THEN 0 ELSE childCounts[k] + sum(k - 1)
        sumSq(k) ==
            IF k = 0 THEN 0 ELSE childCounts[k] * childCounts[k] + sumSq(k - 1)
    IN  IF count < 2 THEN [score |-> One, details |-> [variance |-> Zero]]
        \* sum((b - mean)^2) / count, with mean = sum / count
        ELSE Let(Rat(count * sumSq(count) - sum(count) * sum(count),
                     count * count), LAMBDA variance :
             [score |-> RSub(One, RMin(One, RMul(variance, Rat(1, VAR_MAX)))),
              details |-> [variance |-> variance,
                           childCounts |-> childCounts]])

computeHierarchyBalance(root) ==
    Let(childCountsOf(root), LAMBDA childCounts : balanceOf(childCounts))

----------------------------------------------------------------------------
(* Text of the collaborators' answers: a string is a sequence of characters *)

Digits == {"0", "1", "2", "3", "4", "5", "6", "7", "8", "9"}

DigitVal(c) ==
    CASE c = "0" -> 0 [] c = "1" -> 1 [] c = "2" -> 2 [] c = "3" -> 3
      [] c = "4" -> 4 [] c = "5" -> 5 [] c = "6" -> 6 [] c = "7" -> 7
      [] c = "8" -> 8 [] c = "9" -> 9

NaN == [nan |-> TRUE]

Text == Seq(STRING)

trimStart[s \in Text] ==
    IF s # <<>> /\ Head(s) = " " THEN trimStart[Tail(s)] ELSE s

trimEnd[s \in Text] ==
    IF s # <<>> /\ s[Len(s)] = " " THEN trimEnd[SubSeq(s, 1, Len(s) - 1)]
    ELSE s

\* String.prototype.trim
trim(s) == trimEnd[trimStart[s]]

\* the number of leading digits of s
DigitRun[s \in Text] ==
    IF s # <<>> /\ Head(s) \in Digits THEN 1 + DigitRun[Tail(s)] ELSE 0

\* the value of a sequence of digits
DigitsValue[s \in Text] ==
    IF s = <<>> THEN 0
    ELSE DigitsValue[SubSeq(s, 1, Len(s) - 1)] * 10 + DigitVal(s[Len(s)])

RECURSIVE Pow10(_)
Pow10(k) == IF k = 0 THEN 1 ELSE 10 * Pow10(k - 1)

Signed(s) == s # <<>> /\ Head(s) \in {"-", "+"}
Unsigned(s) == IF Signed(s) THEN Tail(s) ELSE s
SignOf(s) == IF s # <<>> /\ Head(s) = "-" THEN -1 ELSE 1

\* parseFloat: the longest decimal prefix (sign, digits, point, digits) after
\* leading blanks; NaN when it holds no digit.  Exponents and "Infinity" are
\* outside the answers the model draws.
parseFloat(str) ==
    Let(trimStart[str], LAMBDA s :
    Let(Unsigned(s), LAMBDA u :
    Let(DigitRun[u], LAMBDA ni :
    Let(SubSeq(u, ni + 1, Len(u)), LAMBDA rest :
    Let(IF rest # <<>> /\ Head(rest) = "." THEN DigitRun[Tail(rest)] ELSE 0,
        LAMBDA nf :
        IF ni + nf = 0 THEN NaN
        ELSE Rat(SignOf(s) * (DigitsValue[SubSeq(u, 1, ni)] * Pow10(nf)
                              + DigitsValue[SubSeq(rest, 2, nf + 1)]),
                 Pow10(nf)))))))

\* parseInt(str, 10): sign and leading digits after leading blanks (the
\* integer is returned as a rational of denominator 1)
parseInt(str) ==
    Let(trimStart[str], LAMBDA s :
    Let(Unsigned(s), LAMBDA u :
    Let(DigitRun[u], LAMBDA ni :
        IF ni = 0 THEN NaN
        ELSE Rat(SignOf(s) * DigitsValue[SubSeq(u, 1, ni)], 1))))

isNaN(x) == x = NaN

----------------------------------------------------------------------------
(* metrics/semantic.ts *)

\* getLeafNodes: the nodes without children, in pre-order
\* the leaves, one for each id that a leaf carries
getLeafNodesById(root) ==
    LET isLeaf(i) == /\ Len(Children(root, i)) = 0
                     /\ \A j \in 1..(i - 1) :
                           Len(Children(root, j)) = 0 => root[j].id # root[i].id
    IN  SelectSeq([i \in 1..Len(root) |-> i], isLeaf)

getLeafNodes(root) ==
    LET isLeaf(i) == Len(Children(root, i)) = 0
    IN  SelectSeq([i \in 1..Len(root) |-> i], isLeaf)

SameLength(a, b) == Len(a) = Len(b)

\* cosineSimilarity, lines 46-56: the three sums; the quotient
\* dot / (sqrt(normA) * sqrt(normB)) is kept unevaluated
cosineSimilarity(a, b) ==
    LET RECURSIVE dot(_, _, _)
        dot(x, y, i) == IF i = 0 THEN 0 ELSE x[i] * y[i] + dot(x, y, i - 1)
    IN  [dotProduct |-> dot(a, b, Len(a)),
         normA |-> dot(a, a, Len(a)),
         normB |-> dot(b, b, Len(b))]

\* similarity >= threshold
SimilarityAtLeast(sim, threshold) ==
    /\ sim.dotProduct > 0
    /\ sim.dotProduct * sim.dotProduct * threshold.d * threshold.d
         >= threshold.n * threshold.n * sim.normA * sim.normB

\* similarity > threshold, for a threshold >= 0 (0/0 is NaN: not greater)
SimilarityAbove(sim, threshold) ==
    /\ sim.dotProduct > 0
    /\ sim.dotProduct * sim.dotProduct * threshold.d * threshold.d
         > threshold.n * threshold.n * sim.normA * sim.normB

REDUNDANCY_THRESHOLD == Rat(4, 5)

\* the pairs (i, j), i < j, in the order of the two loops
Pairs(n) ==
    LET RECURSIVE row(_, _), rows(_)
        row(i, j) == IF j > n THEN <<>> ELSE <<<<i, j>>>> \o row(i, j + 1)
        rows(i) == IF i > n THEN <<>> ELSE row(i, i + 1) \o rows(i + 1)
    IN  rows(1)

\* the pairs of vectors of unequal length are passed over
redundancyOfSkipping(embs, threshold) ==
    LET pairs == SelectSeq(Pairs(Len(embs)),
                           LAMBDA pr : SameLength(embs[pr[1]], embs[pr[2]]))
        redundant(pr) ==
            SimilarityAbove(cosineSimilarity(embs[pr[1]], embs[pr[2]]),
                            threshold)
        similarPairs == SelectSeq(pairs, redundant)
        redundantPairs == Len(similarPairs)
        totalPairs == Len(pairs)
        redundancyRatio == IF totalPairs > 0
                           THEN Rat(redundantPairs, totalPairs) ELSE Zero
    IN  [score |-> RSub(One, redundancyRatio),
         details |-> [redundantPairs |-> redundantPairs,
                      totalPairs |-> totalPairs,
                      similarPairs |->
                         SubSeq(similarPairs, 1,
                                IF redundantPairs < 5
                                THEN redundantPairs ELSE 5)]]

\* computeRedundancy, lines 82-115, once every embedding is in
redundancyOf(embs, threshold) ==
    LET pairs == Pairs(Len(embs))
        mismatch == \E k \in DOMAIN pairs :
                        ~SameLength(embs[pairs[k][1]], embs[pairs[k][2]])
        redundant(pr) ==
            SimilarityAbove(cosineSimilarity(embs[pr[1]], embs[pr[2]]),
                            threshold)
        similarPairs == SelectSeq(pairs, redundant)
        redundantPairs == Len(similarPairs)
        totalPairs == Len(pairs)
        redundancyRatio == IF totalPairs > 0
                           THEN Rat(redundantPairs, totalPairs) ELSE Zero
    IN  IF mismatch THEN [error |-> "Vectors must have the same length"]
        ELSE [score |-> RSub(One, redundancyRatio),
              details |-> [redundantPairs |-> redundantPairs,
                           totalPairs |-> totalPairs,
                           similarPairs |->
                              SubSeq(similarPairs, 1,
                                     IF redundantPairs < 5
                                     THEN redundantPairs ELSE 5)]]

IDEAL_MIN == 1
IDEAL_MAX == 8

ExpScale == 10000

\* Math.exp(-x) for a rational x >= 0, in fixed point: x is halved until it
\* is at most 1/2, the series is summed to the sixth power and the result
\* squared back
Halvings[x \in Rational] ==
    IF 2 * x.n <= x.d THEN 0 ELSE 1 + Halvings[Rat(x.n, 2 * x.d)]

RECURSIVE Pow2(_)
Pow2(k) == IF k = 0 THEN 1 ELSE 2 * Pow2(k - 1)

RECURSIVE SquareTimes(_, _)
SquareTimes(v, k) ==
    IF k = 0 THEN v ELSE SquareTimes((v * v) \div ExpScale, k - 1)

\* a double holds exp(-x) as a positive number up to x = 745.13 and as 0
\* from x = 745.14 on (the smallest positive double is 2^-1074)
EXP_UNDERFLOW == Rat(74513, 100)

\* a positive result smaller than one unit of the fixed point is kept as
\* one unit; beyond EXP_UNDERFLOW the result is 0
ExpNeg(x) ==
    IF RLt(EXP_UNDERFLOW, x) THEN Zero
    ELSE Let(Halvings[x], LAMBDA m :
         Let(Rat(x.n, x.d * Pow2(m)), LAMBDA y :
         LET RECURSIVE term(_)
             term(k) == IF k = 0 THEN ExpScale
                        ELSE (term(k - 1) * y.n) \div (y.d * k)
             series == term(0) - term(1) + term(2) - term(3) + term(4)
                       - term(5) + term(6)
         IN  Let(SquareTimes(series, m), LAMBDA v :
                 Rat(IF v < 1 THEN 1 ELSE v, ExpScale))))

RAbs(x) == [n |-> Abs(x.n), d |-> x.d]

\* the score of one leaf with the two ends of the range left out of it
leafGranularityExclusive(reply, min, max, alpha) ==
    Let(parseFloat(trim(reply)), LAMBDA effort :
    Let(Rat(min + max, 2), LAMBDA mid :
        IF isNaN(effort) THEN Rat(1, 2)
        ELSE IF RLt(Rat(min, 1), effort) /\ RLt(effort, Rat(max, 1)) THEN One
        ELSE Let(RMul(Rat(alpha, 1),
                      RMul(RAbs(RSub(effort, mid)), Rat(mid.d, mid.n))),
                 LAMBDA distance : ExpNeg(distance))))

\* computeGranularity, lines 142-160: the score of one leaf
leafGranularity(reply, min, max, alpha) ==
    Let(parseFloat(trim(reply)), LAMBDA effort :
    Let(Rat(min + max, 2), LAMBDA mid :
        IF isNaN(effort) THEN Rat(1, 2)
        ELSE IF RGe(effort, Rat(min, 1)) /\ RLe(effort, Rat(max, 1)) THEN One
        ELSE Let(RMul(Rat(alpha, 1),
                      RMul(RAbs(RSub(effort, mid)), Rat(mid.d, mid.n))),
                 LAMBDA distance : ExpNeg(distance))))

\* the normalized rating of one leaf without the test of the scale
leafExecutabilityUnchecked(reply) ==
    Let(parseInt(trim(reply)), LAMBDA rating :
        IF isNaN(rating) THEN Rat(1, 2)
        ELSE Rat(rating.n - 1, 4))

\* computeExecutability, lines 197-207: the normalized rating of one leaf
leafExecutability(reply) ==
    Let(parseInt(trim(reply)), LAMBDA rating :
        IF isNaN(rating) \/ rating.n < 1 \/ rating.n > 5 THEN Rat(1, 2)
        ELSE Rat(rating.n - 1, 4))

\* computeGranularity, lines 144-160: the entry pushed to efforts
leafEffort(reply, min, max, alpha) ==
    Let(parseFloat(trim(reply)), LAMBDA effort :
        [effort |-> IF isNaN(effort) THEN Rat(-1, 1) ELSE effort,
         score |-> leafGranularity(reply, min, max, alpha)])

\* computeExecutability, lines 199-207: the entry pushed to ratings
leafRating(reply) ==
    Let(parseInt(trim(reply)), LAMBDA rating :
        [rating |-> IF isNaN(rating) \/ rating.n < 1 \/ rating.n > 5
                    THEN 3 ELSE rating.n,
         normalized |-> leafExecutability(reply)])

RSum[s \in Seq(Rational)] ==
    IF s = <<>> THEN Zero ELSE RAdd(Head(s), RSum[Tail(s)])

\* reduce((a, b) => a + b, 0) / length
Average(s) == RMul(RSum[s], Rat(1, Len(s)))

----------------------------------------------------------------------------
(* metrics/tdq.ts *)

DEFAULT_WEIGHTS ==
    [acyclicity |-> Rat(10, 100), hierarchy |-> Rat(15, 100),
     balance |-> Rat(10, 100), granularity |-> Rat(20, 100),
     redundancy |-> Rat(10, 100), executability |-> Rat(25, 100)]

\* score.toFixed(2), as a number of hundredths
toFixed2(x) == (2 * 100 * x.n + x.d) \div (2 * x.d)

\* the sum weighted by the default weights, whatever weights are passed
weightedScoreDefault(a, h, b, g, r, e, w) ==
    RAdd(RAdd(RAdd(RAdd(RAdd(RMul(DEFAULT_WEIGHTS.acyclicity, a),
                             RMul(DEFAULT_WEIGHTS.hierarchy, h)),
                        RMul(DEFAULT_WEIGHTS.balance, b)),
                   RMul(DEFAULT_WEIGHTS.granularity, g)),
              RMul(DEFAULT_WEIGHTS.redundancy, r)),
         RMul(DEFAULT_WEIGHTS.executability, e))

\* lines 59-65
weightedScore(a, h, b, g, r, e, w) ==
    RAdd(RAdd(RAdd(RAdd(RAdd(RMul(w.acyclicity, a),
                             RMul(w.hierarchy, h)),
                        RMul(w.balance, b)),
                   RMul(w.granularity, g)),
              RMul(w.redundancy, r)),
         RMul(w.executability, e))

\* the issues with a score equal to its cutoff reported as well
issuesOfInclusive(a, h, b, g, r, e) ==
    (IF REq(a, Zero) THEN <<[kind |-> "cycle"]>> ELSE <<>>)
    \o (IF RLe(h, Rat(7, 10))
        THEN <<[kind |-> "hierarchy", shown |-> toFixed2(h)]>> ELSE <<>>)
    \o (IF RLe(b, Rat(5, 10))
        THEN <<[kind |-> "balance", shown |-> toFixed2(b)]>> ELSE <<>>)
    \o (IF RLe(g, Rat(6, 10))
        THEN <<[kind |-> "granularity", shown |-> toFixed2(g)]>> ELSE <<>>)
    \o (IF RLe(r, Rat(8, 10))
        THEN <<[kind |-> "redundancy", shown |-> toFixed2(r)]>> ELSE <<>>)
    \o (IF RLe(e, Rat(6, 10))
        THEN <<[kind |-> "executability", shown |-> toFixed2(e)]>> ELSE <<>>)

\* lines 68-92: an issue is its message's kind and the score it prints
issuesOf(a, h, b, g, r, e) ==
    (IF REq(a, Zero) THEN <<[kind |-> "cycle"]>> ELSE <<>>)
    \o (IF RLt(h, Rat(7, 10))
        THEN <<[kind |-> "hierarchy", shown |-> toFixed2(h)]>> ELSE <<>>)
    \o (IF RLt(b, Rat(5, 10))
        THEN <<[kind |-> "balance", shown |-> toFixed2(b)]>> ELSE <<>>)
    \o (IF RLt(g, Rat(6, 10))
        THEN <<[kind |-> "granularity", shown |-> toFixed2(g)]>> ELSE <<>>)
    \o (IF RLt(r, Rat(8, 10))
        THEN <<[kind |-> "redundancy", shown |-> toFixed2(r)]>> ELSE <<>>)
    \o (IF RLt(e, Rat(6, 10))
        THEN <<[kind |-> "executability", shown |-> toFixed2(e)]>> ELSE <<>>)

\* lines 58-106
tdqOf(a, h, b, g, r, e, w) ==
    [score |-> weightedScore(a.score, h.score, b.score, g.score, r.score,
                             e.score, w),
     breakdown |-> [acyclicity |-> a, hierarchy |-> h, balance |-> b,
                    granularity |-> g, redundancy |-> r, executability |-> e],
     weights |-> w,
     issues |-> issuesOf(a.score, h.score, b.score, g.score, r.score,
                         e.score)]

----------------------------------------------------------------------------
(* core/config.ts: the configurations read from process.env.  A variable    *)
(* that is not set reads as Undefined                                       *)

Undefined == "<undefined>"

EnvKeys ==
    {"LLM_PROVIDER", "EMBEDDING_PROVIDER", "OPENAI_API_KEY", "OPENAI_BASE_URL",
     "OPENAI_MODEL", "ANTHROPIC_API_KEY", "ANTHROPIC_MODEL", "GEMINI_API_KEY",
     "GEMINI_MODEL", "OLLAMA_BASE_URL", "OLLAMA_MODEL", "CUSTOM_API_KEY",
     "CUSTOM_BASE_URL", "CUSTOM_MODEL", "EMBEDDING_MODEL",
     "LOCAL_EMBEDDING_MODEL"}

NoEnv == [key \in EnvKeys |-> Undefined]

\* !value
Falsy(value) == value = Undefined \/ value = ""

\* value || fallback
OrElse(value, fallback) == IF Falsy(value) THEN fallback ELSE value

\* lines 20-26
getEnv(e, key, required) ==
    IF required /\ Falsy(e[key])
    THEN [error |-> "Environment variable is required but not set",
          key |-> key]
    ELSE [value |-> e[key]]

\* the first of the reads that threw, the configuration when none did
FirstError(reads, config) ==
    IF \E k \in DOMAIN reads : "error" \in DOMAIN reads[k]
    THEN reads[CHOOSE k \in DOMAIN reads :
                  /\ "error" \in DOMAIN reads[k]
                  /\ \A j \in 1..(k - 1) : "error" \notin DOMAIN reads[j]]
    ELSE config

\* ...(baseUrl ? { baseUrl } : {})
WithBaseUrl(config, baseUrl) ==
    IF Falsy(baseUrl) THEN config ELSE ("baseUrl" :> baseUrl) @@ config

\* the variable the base URL of the OpenAI embedding client is read from
EmbeddingBaseUrlKey == "OPENAI_BASE_URL"

\* line 33: the variable the base URL of provider 'openai' is read from
LLMBaseUrlKey == "OPENAI_API_KEY"

\* lines 28-72
getLLMConfig(e) ==
    LET provider == OrElse(getEnv(e, "LLM_PROVIDER", FALSE).value, "gemini")
    IN  CASE provider = "openai" ->
               LET baseUrl == getEnv(e, LLMBaseUrlKey, FALSE).value
                   apiKey == getEnv(e, "OPENAI_API_KEY", TRUE)
               IN  FirstError(<<apiKey>>,
                     WithBaseUrl(
                       [provider |-> provider,
                        apiKey |-> e["OPENAI_API_KEY"],
                        model |-> OrElse(getEnv(e, "OPENAI_MODEL", FALSE).value,
                                         "gpt-4o-mini")],
                       baseUrl))
          [] provider = "anthropic" ->
               FirstError(<<getEnv(e, "ANTHROPIC_API_KEY", TRUE)>>,
                 [provider |-> provider,
                  apiKey |-> e["ANTHROPIC_API_KEY"],
                  model |-> OrElse(getEnv(e, "ANTHROPIC_MODEL", FALSE).value,
                                   "claude-3-5-sonnet-20241022")])
          [] provider = "gemini" ->
               FirstError(<<getEnv(e, "GEMINI_API_KEY", TRUE)>>,
                 [provider |-> provider,
                  apiKey |-> e["GEMINI_API_KEY"],
                  model |-> OrElse(getEnv(e, "GEMINI_MODEL", FALSE).value,
                                   "gemini-2.0-flash-exp")])
          [] provider = "ollama" ->
               [provider |-> provider,
                apiKey |-> "",
                baseUrl |-> OrElse(getEnv(e, "OLLAMA_BASE_URL", FALSE).value,
                                   "http://localhost:11434"),
                model |-> OrElse(getEnv(e, "OLLAMA_MODEL", FALSE).value,
                                 "llama3.2")]
          [] provider = "custom" ->
               FirstError(<<getEnv(e, "CUSTOM_API_KEY", TRUE),
                            getEnv(e, "CUSTOM_BASE_URL", TRUE),
                            getEnv(e, "CUSTOM_MODEL", TRUE)>>,
                 [provider |-> provider,
                  apiKey |-> e["CUSTOM_API_KEY"],
                  baseUrl |-> e["CUSTOM_BASE_URL"],
                  model |-> e["CUSTOM_MODEL"]])
          [] OTHER -> [error |-> "Unknown LLM provider", key |-> provider]

\* lines 74-102
getEmbeddingConfig(e) ==
    LET provider == OrElse(getEnv(e, "EMBEDDING_PROVIDER", FALSE).value,
                           "openai")
    IN  CASE provider = "openai" ->
               LET baseUrl == getEnv(e, EmbeddingBaseUrlKey, FALSE).value
                   apiKey == getEnv(e, "OPENAI_API_KEY", TRUE)
               IN  FirstError(<<apiKey>>,
                     WithBaseUrl(
                       [provider |-> provider,
                        apiKey |-> e["OPENAI_API_KEY"],
                        model |-> OrElse(getEnv(e, "EMBEDDING_MODEL",
                                                FALSE).value,
                                         "text-embedding-3-small")],
                       baseUrl))
          [] provider = "gemini" ->
               FirstError(<<getEnv(e, "GEMINI_API_KEY", TRUE)>>,
                 [provider |-> provider,
                  apiKey |-> e["GEMINI_API_KEY"],
                  model |-> OrElse(getEnv(e, "EMBEDDING_MODEL", FALSE).value,
                                   "text-embedding-004")])
          [] provider = "local" ->
               [provider |-> provider,
                apiKey |-> "",
                model |-> OrElse(getEnv(e, "LOCAL_EMBEDDING_MODEL",
                                        FALSE).value,
                                 "Xenova/all-MiniLM-L6-v2")]
          [] OTHER -> [error |-> "Unknown embedding provider",
                       key |-> provider]

----------------------------------------------------------------------------
(* The structural metrics applied to every tree of the bounded universe *)

\* a payload cast to TaskNode is a node sequence as well; a node of it that
\* is not of the shape of TaskNode carries the fields it lacks
Lacks(node) == IF "lacks" \in DOMAIN node THEN node.lacks ELSE {}

\* node.children can be iterated on every node
ChildrenIterable(t) == \A i \in DOMAIN t : "children" \notin Lacks(t[i])

NoCalls ==
    [generate |-> 0, embed |-> 0, effort |-> 0, exec |-> 0, refine |-> 0,
     computeTDQ |-> 0]

Idle ==
    /\ maxIterations = 0
    /\ targetTDQ = Zero
    /\ iteration = 0
    /\ history = <<>>
    /\ site = "none"
    /\ embeddings = <<>>
    /\ redundancy = None
    /\ scores = <<>>
    /\ efforts = <<>>
    /\ granularity = None
    /\ ratings = <<>>
    /\ response = <<>>
    /\ executability = None
    /\ weights = DEFAULT_WEIGHTS
    /\ tdqResult = None
    /\ refineReq = None
    /\ result = None
    /\ nCalls = NoCalls
    /\ env = NoEnv

InitStruct ==
    /\ currentTree \in {<<r>> : r \in RootNodes}
    /\ pc = "input"
    /\ acyclicity = None
    /\ hierarchy = None
    /\ balance = None
    /\ Idle

\* TaskNode.children: one more node is nested into the tree (a tree
\* without dependencies may grow further, by nodes without dependencies,
\* and further still while every node has an id of its own)
AddNode ==
    /\ pc = "input"
    /\ \/ /\ Len(currentTree) < MaxNodes
          /\ \E node \in NextNodes(currentTree) :
                currentTree' = Append(currentTree, node)
       \/ /\ NoDependencies(currentTree)
          /\ Len(currentTree) < MaxPlainNodes
          /\ \E node \in NextPlainNodes(currentTree) :
                currentTree' = Append(currentTree, node)
       \/ /\ NoDependencies(currentTree)
          /\ UniqueIds(currentTree)
          /\ Len(currentTree) \in MaxPlainNodes..(MaxWideNodes - 1)
          /\ \E node \in NextFreshNodes(currentTree) :
                currentTree' = Append(currentTree, node)
    /\ UNCHANGED <<env, pc, maxIterations, targetTDQ, iteration, history, site,
                   acyclicity, hierarchy, balance, embeddings, redundancy,
                   scores, granularity, ratings, executability, tdqResult,
                   refineReq, result, nCalls, weights, efforts, response>>

\* the trees of few dependencies: ids repeated or not, a dependency on an
\* id of the tree, on an id not yet in it, or on an id that never is
FewDepTargets == {IdOrder[k] : k \in 1..MaxFewNodes} \cup {"missing"}

FewRootNodes ==
    {[id |-> IdOrder[1], depth |-> 0, deps |-> ds] :
        ds \in SeqsUpTo(FewDepTargets, MaxFewDeps)}

NextFewNodes(t) ==
    {[id |-> i, depth |-> d, deps |-> ds] :
        i \in UsedIds(t) \cup {IdOrder[Cardinality(UsedIds(t)) + 1]},
        d \in 1..(t[Len(t)].depth + 1),
        ds \in SeqsUpTo(FewDepTargets, MaxFewDeps - TotalDeps(t))}

InitFew ==
    /\ currentTree \in {<<r>> : r \in FewRootNodes}
    /\ pc = "input"
    /\ acyclicity = None
    /\ hierarchy = None
    /\ balance = None
    /\ Idle

\* TaskNode.children: one more node is nested into the tree
AddFewNode ==
    /\ pc = "input"
    /\ Len(currentTree) < MaxFewNodes
    /\ \E node \in NextFewNodes(currentTree) :
          currentTree' = Append(currentTree, node)
    /\ UNCHANGED <<env, pc, maxIterations, targetTDQ, iteration, history, site,
                   acyclicity, hierarchy, balance, embeddings, redundancy,
                   scores, granularity, ratings, executability, tdqResult,
                   refineReq, result, nCalls, weights, efforts, response>>

\* computeTDQ, lines 50-52: the three structural metrics, no external call
EvaluateStructural ==
    /\ pc \in {"input", "computeTDQ"}
    /\ IF ChildrenIterable(currentTree)
       THEN /\ acyclicity' = computeAcyclicity(currentTree)
            /\ hierarchy' = computeHierarchyConsistency(currentTree)
            /\ balance' = computeHierarchyBalance(currentTree)
            /\ pc' = "computeRedundancy"
            /\ UNCHANGED result
       \* getAllNodes, line 8: for (const child of undefined) throws
       ELSE /\ pc' = "failed"
            /\ result' = [error |-> "TypeError: node.children is not iterable"]
            /\ UNCHANGED <<acyclicity, hierarchy, balance>>
    /\ nCalls' = [nCalls EXCEPT !.computeTDQ = @ + 1]
    /\ UNCHANGED <<env, maxIterations, targetTDQ, currentTree, iteration,
                   history, site, embeddings, redundancy, scores,
                   granularity, ratings, executability, tdqResult,
                   refineReq, weights, efforts, response>>

NextStruct ==
    \/ AddNode
    \/ EvaluateStructural

SpecStruct == InitStruct /\ [][NextStruct]_vars

NextFew ==
    \/ AddFewNode
    \/ EvaluateStructural

SpecFew == InitFew /\ [][NextFew]_vars

----------------------------------------------------------------------------
(* The collaborators' answers the model draws *)

Node(i, d, ds) == [id |-> i, depth |-> d, deps |-> ds]

\* trees the generation collaborator may return
TreePool ==
    { <<Node("root", 0, <<>>)>>,
      <<Node("root", 0, <<>>), Node("c1", 1, <<"root">>)>> }

EmbedResponses == { <<1, 0>>, <<0, 1>>, <<1>> }

EffortResponses == { <<"4">>, <<"n", "/", "a">> }

ExecResponses == { <<"5">>, <<"2">> }

Targets == { Rat(3, 4), Rat(9, 10) }

----------------------------------------------------------------------------
(* optimizeTaskDecomposition *)

Init ==
    /\ pc = "start"
    /\ maxIterations \in 0..MaxIter
    /\ targetTDQ \in Targets
    /\ currentTree = NoTree
    /\ iteration = 0
    /\ history = <<>>
    /\ site = "none"
    /\ acyclicity = None
    /\ hierarchy = None
    /\ balance = None
    /\ embeddings = <<>>
    /\ redundancy = None
    /\ scores = <<>>
    /\ efforts = <<>>
    /\ granularity = None
    /\ ratings = <<>>
    /\ response = <<>>
    /\ executability = None
    /\ weights = DEFAULT_WEIGHTS
    /\ tdqResult = None
    /\ refineReq = None
    /\ result = None
    /\ nCalls = NoCalls
    /\ env = NoEnv

\* a call issued together with the next one, none awaited before the other
IssuePair(kind) == nCalls' = [nCalls EXCEPT ![kind] = @ + 2]

\* a call to a collaborator is issued and awaited
Issue(kind) == nCalls' = [nCalls EXCEPT ![kind] = @ + 1]

\* the loop test with <= in place of <
LoopContinuesInclusive(iter, max) == iter <= max

\* line 119: while (iteration < finalConfig.maxIterations)
LoopContinues(iter, max) == iter < max

\* the computeTDQ call the run reaches with the counter at iter
\* (line 126 inside the loop, line 171 after it)
NextSite(iter, max) == IF LoopContinues(iter, max) THEN "loop" ELSE "final"

\* the target test with > in place of >=
TargetExceeded(tdq, target) == RLt(target, tdq.score)

\* a target test that also wants the issue list empty
TargetAchievedNoIssues(tdq, target) ==
    RGe(tdq.score, target) /\ tdq.issues = <<>>

\* line 144
TargetAchieved(tdq, target) == RGe(tdq.score, target)

\* a refinement after the last iteration's evaluation as well
ShouldRefineAlways(iter, max) == iter < max

\* line 159
ShouldRefine(iter, max) == iter < max - 1

\* a history entry numbered from 0
HistoryEntryZeroBased(iter, tdq) ==
    [iteration |-> iter, tdq |-> tdq.score, issues |-> tdq.issues]

\* lines 137-141
HistoryEntry(iter, tdq) ==
    [iteration |-> iter + 1, tdq |-> tdq.score, issues |-> tdq.issues]

\* a refinement request with the granularity and executability scores
\* in each other's place
RefineRequestSwapped(tree, tdq) ==
    [tree |-> tree,
     issues |-> tdq.issues,
     scores |-> [granularity |-> tdq.breakdown.executability.score,
                 executability |-> tdq.breakdown.granularity.score,
                 redundancy |-> tdq.breakdown.redundancy.score]]

\* refineTaskTree, lines 81-87: what the refinement prompt is built from
RefineRequest(tree, tdq) ==
    [tree |-> tree,
     issues |-> tdq.issues,
     scores |-> [granularity |-> tdq.breakdown.granularity.score,
                 executability |-> tdq.breakdown.executability.score,
                 redundancy |-> tdq.breakdown.redundancy.score]]

\* lines 101-114 and generateTaskTree, lines 68-69: the generation call
Start ==
    /\ pc = "start"
    /\ pc' = "generateTaskTree"
    /\ Issue("generate")
    /\ UNCHANGED <<env, maxIterations, targetTDQ, currentTree, iteration,
                   history, site, acyclicity, hierarchy, balance,
                   embeddings, redundancy, scores, granularity, ratings,
                   executability, tdqResult, refineReq, result, weights,
                   efforts, response>>

\* generateTaskTree, line 70, and lines 114-119: the payload parsed from the
\* answer, one of Pool, is the tree
GenerateReturnsFrom(Pool) ==
    /\ pc = "generateTaskTree"
    /\ \E tree \in Pool : currentTree' = tree
    /\ history' = <<>>
    /\ iteration' = 0
    /\ site' = NextSite(0, maxIterations)
    /\ pc' = "computeTDQ"
    /\ UNCHANGED <<env, maxIterations, targetTDQ, acyclicity, hierarchy, balance,
                   embeddings, redundancy, scores, granularity, ratings,
                   executability, tdqResult, refineReq, result, nCalls,
                   weights, efforts, response>>

GenerateReturns == GenerateReturnsFrom(TreePool)

\* computeRedundancy, lines 68-78
StartRedundancy ==
    /\ pc = "computeRedundancy"
    /\ site \in {"loop", "final", "direct"}
    /\ IF Len(currentTree) < 2
       THEN /\ redundancy' = [score |-> One,
                              details |-> [redundantPairs |-> 0,
                                           totalPairs |-> 0]]
            /\ pc' = "computeGranularity"
            /\ UNCHANGED nCalls
       ELSE /\ pc' = "embed"
            /\ Issue("embed")
            /\ UNCHANGED redundancy
    /\ embeddings' = <<>>
    /\ UNCHANGED <<env, maxIterations, targetTDQ, currentTree, iteration,
                   history, site, acyclicity, hierarchy, balance, scores,
                   granularity, ratings, executability, tdqResult,
                   refineReq, result, weights, efforts, response>>

\* computeRedundancy, lines 78-115: an embedding arrives, one of Responses
EmbedReturnsFrom(Responses) ==
    /\ pc = "embed"
    /\ \E embedding \in Responses :
        LET all == Append(embeddings, embedding)
            r == redundancyOf(all, REDUNDANCY_THRESHOLD)
        IN  IF Len(all) < Len(currentTree)
            THEN /\ embeddings' = all
                 /\ pc' = "embed"
                 /\ Issue("embed")
                 /\ UNCHANGED <<redundancy, result>>
            ELSE /\ embeddings' = all
                 /\ UNCHANGED nCalls
                 /\ IF "error" \in DOMAIN r
                    THEN /\ pc' = "failed"
                         /\ result' = r
                         /\ UNCHANGED redundancy
                    ELSE /\ pc' = "computeGranularity"
                         /\ redundancy' = r
                         /\ UNCHANGED result
    /\ UNCHANGED <<env, maxIterations, targetTDQ, currentTree, iteration,
                   history, site, acyclicity, hierarchy, balance, scores,
                   granularity, ratings, executability, tdqResult,
                   refineReq, weights, efforts, response>>

EmbedReturns == EmbedReturnsFrom(EmbedResponses)

\* computeGranularity, lines 127-139
StartGranularity ==
    /\ pc = "computeGranularity"
    /\ IF Len(getLeafNodes(currentTree)) = 0
       THEN /\ granularity' = [score |-> One, details |-> [leafCount |-> 0]]
            /\ pc' = "computeExecutability"
            /\ UNCHANGED nCalls
       ELSE /\ pc' = "effort"
            /\ Issue("effort")
            /\ UNCHANGED granularity
    /\ scores' = <<>>
    /\ efforts' = <<>>
    /\ embeddings' = <<>>
    /\ UNCHANGED <<env, maxIterations, targetTDQ, currentTree, iteration,
                   history, site, acyclicity, hierarchy, balance,
                   redundancy, ratings, executability, tdqResult,
                   refineReq, result, weights, response>>

\* computeGranularity, lines 139-173: an effort estimate arrives, one of
\* Responses
EffortReturnsFrom(Responses) ==
    /\ pc = "effort"
    /\ \E answer \in Responses :
        /\ response' = <<answer>>
        /\ LET entry == leafEffort(answer, IDEAL_MIN, IDEAL_MAX, 1)
               all == Append(scores, entry.score)
               allEfforts == Append(efforts, entry)
               leaves == getLeafNodes(currentTree)
           IN  IF Len(all) < Len(leaves)
               THEN /\ scores' = all
                    /\ efforts' = allEfforts
                    /\ pc' = "effort"
                    /\ Issue("effort")
                    /\ UNCHANGED granularity
               ELSE /\ scores' = <<>>
                    /\ efforts' = <<>>
                    /\ granularity' =
                          [score |-> Average(all),
                           details |-> [leafCount |-> Len(leaves),
                                        efforts |-> allEfforts]]
                    /\ pc' = "computeExecutability"
                    /\ UNCHANGED nCalls
    /\ UNCHANGED <<env, maxIterations, targetTDQ, currentTree, iteration,
                   history, site, acyclicity, hierarchy, balance,
                   embeddings, redundancy, ratings, executability,
                   tdqResult, refineReq, result, weights>>

EffortReturns == EffortReturnsFrom(EffortResponses)

\* computeExecutability, lines 184-194
StartExecutability ==
    /\ pc = "computeExecutability"
    /\ IF Len(getLeafNodes(currentTree)) = 0
       THEN /\ executability' = [score |-> One,
                                 details |-> [leafCount |-> 0]]
            /\ pc' = "aggregate"
            /\ UNCHANGED nCalls
       ELSE /\ pc' = "exec"
            /\ Issue("exec")
            /\ UNCHANGED executability
    /\ ratings' = <<>>
    /\ response' = <<>>
    /\ UNCHANGED <<env, maxIterations, targetTDQ, currentTree, iteration,
                   history, site, acyclicity, hierarchy, balance,
                   embeddings, redundancy, scores, granularity, tdqResult,
                   refineReq, result, weights, efforts>>

\* computeExecutability, lines 194-218: a rating arrives, one of Responses
ExecReturnsFrom(Responses) ==
    /\ pc = "exec"
    /\ \E answer \in Responses :
        /\ response' = <<answer>>
        /\ LET all == Append(ratings, leafRating(answer))
               leaves == getLeafNodes(currentTree)
           IN  IF Len(all) < Len(leaves)
               THEN /\ ratings' = all
                    /\ pc' = "exec"
                    /\ Issue("exec")
                    /\ UNCHANGED executability
               ELSE /\ ratings' = <<>>
                    /\ executability' =
                          [score |-> Average([k \in DOMAIN all |->
                                                all[k].normalized]),
                           details |-> [leafCount |-> Len(leaves),
                                        ratings |-> all]]
                    /\ pc' = "aggregate"
                    /\ UNCHANGED nCalls
    /\ UNCHANGED <<env, maxIterations, targetTDQ, currentTree, iteration,
                   history, site, acyclicity, hierarchy, balance,
                   embeddings, redundancy, scores, granularity, tdqResult,
                   refineReq, result, weights, efforts>>

ExecReturns == ExecReturnsFrom(ExecResponses)

\* where computeTDQ returns to
AfterTDQ(at) ==
    CASE at = "loop" -> "record"
      [] at = "final" -> "returnFinal"
      [] OTHER -> "returned"

\* computeTDQ, lines 58-106: the weighted score, the issues, the return
Aggregate ==
    /\ pc = "aggregate"
    /\ tdqResult' = tdqOf(acyclicity, hierarchy, balance, granularity,
                          redundancy, executability, weights)
    /\ pc' = AfterTDQ(site)
    /\ response' = <<>>
    /\ UNCHANGED <<env, maxIterations, targetTDQ, currentTree, iteration,
                   history, site, acyclicity, hierarchy, balance,
                   embeddings, redundancy, scores, granularity, ratings,
                   executability, refineReq, result, nCalls, weights,
                   efforts>>

\* lines 136-167: the history entry, the target test, the refinement call
Record ==
    /\ pc = "record"
    /\ history' = Append(history, HistoryEntry(iteration, tdqResult))
    /\ IF TargetAchieved(tdqResult, targetTDQ)
       THEN /\ result' = [finalTree |-> currentTree,
                          finalTDQ |-> tdqResult,
                          iterations |-> iteration + 1,
                          history |-> history']
            /\ pc' = "done"
            /\ UNCHANGED <<iteration, site, refineReq, nCalls>>
       ELSE IF ShouldRefine(iteration, maxIterations)
       THEN /\ refineReq' = RefineRequest(currentTree, tdqResult)
            /\ pc' = "refineTaskTree"
            /\ Issue("refine")
            /\ UNCHANGED <<iteration, site, result>>
       ELSE /\ iteration' = iteration + 1
            /\ site' = NextSite(iteration + 1, maxIterations)
            /\ pc' = "computeTDQ"
            /\ UNCHANGED <<refineReq, result, nCalls>>
    /\ UNCHANGED <<env, maxIterations, targetTDQ, currentTree, acyclicity,
                   hierarchy, balance, embeddings, redundancy, scores,
                   granularity, ratings, executability, tdqResult, weights,
                   efforts, response>>

\* refineTaskTree, lines 88-89, and lines 164-167, 119: the payload parsed
\* from the answer, one of Pool, is the tree
RefineReturnsFrom(Pool) ==
    /\ pc = "refineTaskTree"
    /\ \E tree \in Pool : currentTree' = tree
    /\ iteration' = iteration + 1
    /\ site' = NextSite(iteration + 1, maxIterations)
    /\ pc' = "computeTDQ"
    /\ UNCHANGED <<env, maxIterations, targetTDQ, history, acyclicity, hierarchy,
                   balance, embeddings, redundancy, scores, granularity,
                   ratings, executability, tdqResult, refineReq, result,
                   nCalls, weights, efforts, response>>

RefineReturns == RefineReturnsFrom(TreePool)

\* lines 170-183
ReturnFinal ==
    /\ pc = "returnFinal"
    /\ result' = [finalTree |-> currentTree,
                  finalTDQ |-> tdqResult,
                  iterations |-> maxIterations,
                  history |-> history]
    /\ pc' = "done"
    /\ UNCHANGED <<env, maxIterations, targetTDQ, currentTree, iteration,
                   history, site, acyclicity, hierarchy, balance,
                   embeddings, redundancy, scores, granularity, ratings,
                   executability, tdqResult, refineReq, nCalls, weights,
                   efforts, response>>

CallStates == {"generateTaskTree", "embed", "effort", "exec", "refineTaskTree"}

\* a loop that catches a rejected refinement and evaluates the old tree again
OnRejectionResume(at) == IF at = "refineTaskTree" THEN "computeTDQ" ELSE "failed"

\* where the run goes when an awaited call rejects: nothing catches it
OnRejection(at) == "failed"

\* an external call rejects (llmClient.chat or embeddingClient.embed throws)
CallFails ==
    /\ pc \in CallStates
    /\ pc' = OnRejection(pc)
    /\ result' = [error |-> "call rejected"]
    /\ UNCHANGED <<env, maxIterations, targetTDQ, currentTree, iteration,
                   history, site, acyclicity, hierarchy, balance,
                   embeddings, redundancy, scores, granularity, ratings,
                   executability, tdqResult, refineReq, nCalls, weights,
                   efforts, response>>

\* cleanAndParseJSON, lines 46-58: the answer holds no parsable payload
MalformedResponse ==
    /\ pc \in {"generateTaskTree", "refineTaskTree"}
    /\ pc' = "failed"
    /\ result' = [error |-> "malformed response"]
    /\ UNCHANGED <<env, maxIterations, targetTDQ, currentTree, iteration,
                   history, site, acyclicity, hierarchy, balance,
                   embeddings, redundancy, scores, granularity, ratings,
                   executability, tdqResult, refineReq, nCalls, weights,
                   efforts, response>>

Next ==
    \/ Start
    \/ GenerateReturns
    \/ EvaluateStructural
    \/ StartRedundancy
    \/ EmbedReturns
    \/ StartGranularity
    \/ EffortReturns
    \/ StartExecutability
    \/ ExecReturns
    \/ Aggregate
    \/ Record
    \/ RefineReturns
    \/ ReturnFinal
    \/ CallFails
    \/ MalformedResponse

Spec == Init /\ [][Next]_vars

----------------------------------------------------------------------------
(* The run when the answers of generation and refinement parse to any       *)
(* payload: JSON.parse(cleaned) as T (line 53) is a cast, not a test        *)

\* the payload []
ArrayPayload ==
    << [id |-> "undefined", depth |-> 0, deps |-> <<>>,
        lacks |-> {"id", "title", "children"}] >>

\* the payload {"id": "root", "title": "t"}
NoChildrenPayload ==
    << [id |-> "root", depth |-> 0, deps |-> <<>>, lacks |-> {"children"}] >>

\* the payload {"children": []}
BareObjectPayload ==
    << [id |-> "undefined", depth |-> 0, deps |-> <<>>,
        lacks |-> {"id", "title"}] >>

ParsedPayloads ==
    TreePool \cup {ArrayPayload, NoChildrenPayload, BareObjectPayload}

InitPayload ==
    /\ Init
    /\ maxIterations \in {0, 2}

GenerateParsed == GenerateReturnsFrom(ParsedPayloads)

RefineParsed == RefineReturnsFrom(ParsedPayloads)

NextPayload ==
    \/ Start
    \/ GenerateParsed
    \/ EvaluateStructural
    \/ StartRedundancy
    \/ EmbedReturns
    \/ StartGranularity
    \/ EffortReturns
    \/ StartExecutability
    \/ ExecReturns
    \/ Aggregate
    \/ Record
    \/ RefineParsed
    \/ ReturnFinal
    \/ CallFails
    \/ MalformedResponse

SpecPayload == InitPayload /\ [][NextPayload]_vars

----------------------------------------------------------------------------
(* The run when generation and refinement may answer with a tree whose      *)
(* dependencies close a cycle among three nodes                             *)

\* root { c1 (depends on root), c2 }
CycleBelowRoot ==
    <<Node("root", 0, <<>>), Node("c1", 1, <<"root">>), Node("c2", 1, <<>>)>>

CyclePool == { <<Node("root", 0, <<>>)>>, CycleBelowRoot }

\* the embedding of every node: the zero vector, at no similarity above
\* the threshold of any vector
CycleEmbeddings == { <<0, 0>> }

\* the effort estimate of every leaf, inside the ideal range
CycleEfforts == { <<"4">> }

GenerateCyclic == GenerateReturnsFrom(CyclePool)

RefineCyclic == RefineReturnsFrom(CyclePool)

EmbedApart == EmbedReturnsFrom(CycleEmbeddings)

EffortInRange == EffortReturnsFrom(CycleEfforts)

NextCyclic ==
    \/ Start
    \/ GenerateCyclic
    \/ EvaluateStructural
    \/ StartRedundancy
    \/ EmbedApart
    \/ StartGranularity
    \/ EffortInRange
    \/ StartExecutability
    \/ ExecReturns
    \/ Aggregate
    \/ Record
    \/ RefineCyclic
    \/ ReturnFinal
    \/ CallFails
    \/ MalformedResponse

SpecCyclic == Init /\ [][NextCyclic]_vars

----------------------------------------------------------------------------
(* cleanAndParseJSON applied to a raw response.  A response is a sequence   *)
(* of tokens: the four delimiters, the two fence marks (three backticks     *)
(* with and without json after them), a JSON scalar "1" and a word "w"      *)
(* that is no JSON; commas, colons, keys and blanks are left out, so that   *)
(* an object is written as its delimiters around its values                 *)

ResponseTokens == {"{", "}", "[", "]", "fence json", "fence", "1", "w"}

\* indexOf, with 0 for -1
IndexOf(text, c) ==
    IF \E i \in DOMAIN text : text[i] = c
    THEN CHOOSE i \in DOMAIN text :
            text[i] = c /\ \A j \in 1..(i - 1) : text[j] # c
    ELSE 0

\* lastIndexOf, with 0 for -1
LastIndexOf(text, c) ==
    IF \E i \in DOMAIN text : text[i] = c
    THEN CHOOSE i \in DOMAIN text :
            text[i] = c /\ \A j \in (i + 1)..Len(text) : text[j] # c
    ELSE 0

\* substring(start, end + 1), positions from 1: the arguments are swapped
\* when the second is the smaller
Substring(text, start, end) ==
    IF end >= start THEN SubSeq(text, start, end)
    ELSE SubSeq(text, end + 1, start - 1)

\* JSON.parse: the position after the value that begins at i, 0 when none
\* does
RECURSIVE ParseValue(_, _), ParseItems(_, _, _)
ParseValue(text, i) ==
    IF i > Len(text) THEN 0
    ELSE IF text[i] = "1" THEN i + 1
    ELSE IF text[i] = "[" THEN ParseItems(text, i + 1, "]")
    ELSE IF text[i] = "{" THEN ParseItems(text, i + 1, "}")
    ELSE 0

ParseItems(text, i, close) ==
    IF i > Len(text) THEN 0
    ELSE IF text[i] = close THEN i + 1
    ELSE Let(ParseValue(text, i), LAMBDA next :
             IF next = 0 THEN 0 ELSE ParseItems(text, next, close))

\* JSON.parse(text) returns
JSONParses(text) == ParseValue(text, 1) = Len(text) + 1

\* lines 33-59
cleanAndParseJSON(raw) ==
    Let(SelectSeq(SelectSeq(raw, LAMBDA c : c # "fence json"),
                  LAMBDA c : c # "fence"), LAMBDA cleaned :
    LET firstBrace == IndexOf(cleaned, "{")
        firstBracket == IndexOf(cleaned, "[")
        start == IF firstBrace # 0
                    /\ (firstBracket = 0 \/ firstBrace < firstBracket)
                 THEN firstBrace ELSE firstBracket
        lastBrace == LastIndexOf(cleaned, "}")
        lastBracket == LastIndexOf(cleaned, "]")
        end == IF lastBrace # 0 /\ (lastBracket = 0 \/ lastBrace > lastBracket)
               THEN lastBrace ELSE lastBracket
    IN  IF start = 0 \/ end = 0
        THEN [error |-> "No JSON object or array found in response"]
        ELSE Let(Substring(cleaned, start, end), LAMBDA text :
                 IF JSONParses(text) THEN [payload |-> text]
                 ELSE [error |-> "SyntaxError"]))

InitParse ==
    /\ pc = "cleanAndParseJSON"
    /\ response \in {<<raw>> : raw \in SeqsUpTo(ResponseTokens, MaxText)}
    /\ currentTree = NoTree
    /\ acyclicity = None
    /\ hierarchy = None
    /\ balance = None
    /\ maxIterations = 0
    /\ targetTDQ = Zero
    /\ iteration = 0
    /\ history = <<>>
    /\ site = "none"
    /\ embeddings = <<>>
    /\ redundancy = None
    /\ scores = <<>>
    /\ efforts = <<>>
    /\ granularity = None
    /\ ratings = <<>>
    /\ executability = None
    /\ weights = DEFAULT_WEIGHTS
    /\ tdqResult = None
    /\ refineReq = None
    /\ result = None
    /\ nCalls = NoCalls
    /\ env = NoEnv

\* cleanAndParseJSON returns the payload or throws
ParsePayload ==
    /\ pc = "cleanAndParseJSON"
    /\ result' = cleanAndParseJSON(response[1])
    /\ pc' = IF "error" \in DOMAIN result' THEN "failed" ELSE "parsed"
    /\ UNCHANGED <<env, maxIterations, targetTDQ, currentTree, iteration,
                   history, site, acyclicity, hierarchy, balance,
                   embeddings, redundancy, scores, efforts, granularity,
                   ratings, response, executability, weights, tdqResult,
                   refineReq, nCalls>>

NextParse == ParsePayload

SpecParse == InitParse /\ [][NextParse]_vars

----------------------------------------------------------------------------
(* getLLMConfig and getEmbeddingConfig applied to an environment, and the   *)
(* client made from the configuration (llm/factory.ts)                      *)

LLMProviders ==
    {Undefined, "openai", "anthropic", "gemini", "ollama", "custom", "azure"}

EmbeddingProviders == {Undefined, "openai", "gemini", "local", "azure"}

ApiKeys == {Undefined, "", "sk-secret"}

BaseUrls == {Undefined, "", "https://proxy.example/v1"}

Models == {Undefined, "gpt-4o"}

\* the variables of the other providers: all of them set, or none
OtherSettings == {Undefined, "configured"}

Environments ==
    {[key \in EnvKeys |->
        CASE key = "LLM_PROVIDER" -> lp
          [] key = "EMBEDDING_PROVIDER" -> ep
          [] key = "OPENAI_API_KEY" -> apiKey
          [] key = "OPENAI_BASE_URL" -> baseUrl
          [] key = "OPENAI_MODEL" -> model
          [] OTHER -> other] :
        lp \in LLMProviders, ep \in EmbeddingProviders, apiKey \in ApiKeys,
        baseUrl \in BaseUrls, model \in Models, other \in OtherSettings}

InitConfig ==
    /\ pc = "config"
    /\ env \in Environments
    /\ currentTree = NoTree
    /\ acyclicity = None
    /\ hierarchy = None
    /\ balance = None
    /\ maxIterations = 0
    /\ targetTDQ = Zero
    /\ iteration = 0
    /\ history = <<>>
    /\ site = "none"
    /\ embeddings = <<>>
    /\ redundancy = None
    /\ scores = <<>>
    /\ efforts = <<>>
    /\ granularity = None
    /\ ratings = <<>>
    /\ response = <<>>
    /\ executability = None
    /\ weights = DEFAULT_WEIGHTS
    /\ tdqResult = None
    /\ refineReq = None
    /\ result = None
    /\ nCalls = NoCalls

ConfigFrame ==
    UNCHANGED <<env, maxIterations, targetTDQ, currentTree, iteration,
                history, site, acyclicity, hierarchy, balance, embeddings,
                redundancy, scores, efforts, granularity, ratings, response,
                executability, weights, tdqResult, refineReq, nCalls>>

\* getLLMConfig returns or throws
GetLLMConfig ==
    /\ pc = "config"
    /\ result' = getLLMConfig(env)
    /\ pc' = IF "error" \in DOMAIN result' THEN "failed" ELSE "llmConfig"
    /\ ConfigFrame

\* getEmbeddingConfig returns or throws
GetEmbeddingConfig ==
    /\ pc = "config"
    /\ result' = getEmbeddingConfig(env)
    /\ pc' = IF "error" \in DOMAIN result' THEN "failed"
             ELSE "embeddingConfig"
    /\ ConfigFrame

\* createLLMClient, factory.ts lines 9-27: the arguments of the constructor
createLLMClient(config) ==
    CASE config.provider \in {"openai", "custom"} ->
           WithBaseUrl([client |-> "OpenAILLMClient",
                        apiKey |-> config.apiKey, model |-> config.model],
                       IF "baseUrl" \in DOMAIN config THEN config.baseUrl
                       ELSE Undefined)
      [] config.provider = "anthropic" ->
           [client |-> "AnthropicLLMClient", apiKey |-> config.apiKey,
            model |-> config.model]
      [] config.provider = "gemini" ->
           [client |-> "GeminiLLMClient", apiKey |-> config.apiKey,
            model |-> config.model]
      [] config.provider = "ollama" ->
           [client |-> "OllamaLLMClient",
            baseUrl |-> OrElse(config.baseUrl, "http://localhost:11434"),
            model |-> config.model]

\* createEmbeddingClient, factory.ts lines 29-43
createEmbeddingClient(config) ==
    CASE config.provider = "openai" ->
           WithBaseUrl([client |-> "OpenAIEmbeddingClient",
                        apiKey |-> config.apiKey, model |-> config.model],
                       IF "baseUrl" \in DOMAIN config THEN config.baseUrl
                       ELSE Undefined)
      [] config.provider = "gemini" ->
           [client |-> "GeminiEmbeddingClient", apiKey |-> config.apiKey,
            model |-> config.model]
      [] config.provider = "local" ->
           [client |-> "LocalEmbeddingClient", model |-> config.model]

CreateLLMClient ==
    /\ pc = "llmConfig"
    /\ result' = createLLMClient(result)
    /\ pc' = "llmClient"
    /\ ConfigFrame

CreateEmbeddingClient ==
    /\ pc = "embeddingConfig"
    /\ result' = createEmbeddingClient(result)
    /\ pc' = "embeddingClient"
    /\ ConfigFrame

NextConfig ==
    \/ GetLLMConfig
    \/ GetEmbeddingConfig
    \/ CreateLLMClient
    \/ CreateEmbeddingClient

SpecConfig == InitConfig /\ [][NextConfig]_vars

----------------------------------------------------------------------------
(* computeTDQ called on its own: one evaluation of one tree, the            *)
(* collaborators answering from wider sets                                  *)

\* the trees evaluated
SemanticTrees ==
    { <<Node("root", 0, <<>>)>>,
      <<Node("root", 0, <<>>), Node("c1", 1, <<>>)>>,
      <<Node("root", 0, <<>>), Node("c1", 1, <<>>), Node("c2", 1, <<>>)>>,
      <<Node("root", 0, <<>>), Node("c1", 1, <<>>), Node("c1", 1, <<>>)>> }

\* embeddings: (4,3) is at cosine similarity 4/5 of (1,0) and 3/5 of (0,1)
EmbedSamples == { <<1, 0>>, <<0, 1>>, <<4, 3>>, <<0, 0>>, <<1>> }

\* effort estimates: inside the range, at its ends, outside it, far outside
\* it, not a number
EffortSamples ==
    { <<"4">>, <<"1">>, <<"8">>, <<" ", "6", " ">>, <<"0", ".", "5">>,
      <<"8", ".", "5">>, <<"-", "3">>, <<"1", "0", "0", "0", "0">>,
      <<"n", "/", "a">> }

\* ratings: on the scale, off the scale, not an integer
ExecSamples ==
    { <<"5">>, <<"1">>, <<"3">>, <<"4", ".", "7">>, <<"0">>, <<"6">>,
      <<"-", "2">>, <<"x">> }

InitSemantic ==
    /\ pc = "computeTDQ"
    /\ currentTree \in SemanticTrees
    /\ site = "direct"
    /\ maxIterations = 0
    /\ targetTDQ = Zero
    /\ iteration = 0
    /\ history = <<>>
    /\ acyclicity = None
    /\ hierarchy = None
    /\ balance = None
    /\ embeddings = <<>>
    /\ redundancy = None
    /\ scores = <<>>
    /\ efforts = <<>>
    /\ granularity = None
    /\ ratings = <<>>
    /\ response = <<>>
    /\ executability = None
    /\ weights = DEFAULT_WEIGHTS
    /\ tdqResult = None
    /\ refineReq = None
    /\ result = None
    /\ nCalls = NoCalls
    /\ env = NoEnv

EmbedSampled == EmbedReturnsFrom(EmbedSamples)

EffortSampled == EffortReturnsFrom(EffortSamples)

ExecSampled == ExecReturnsFrom(ExecSamples)

NextSemantic ==
    \/ EvaluateStructural
    \/ StartRedundancy
    \/ EmbedSampled
    \/ StartGranularity
    \/ EffortSampled
    \/ StartExecutability
    \/ ExecSampled
    \/ Aggregate

SpecSemantic == InitSemantic /\ [][NextSemantic]_vars

----------------------------------------------------------------------------
(* The aggregation of computeTDQ applied to six metric results and the      *)
(* weights of the caller                                                    *)

\* the scores drawn for a metric with warning cutoff c: at the cutoff, just
\* below it, and 1
ScoresAround(c) == { c, RSub(c, Rat(1, 100)), One }

OnesWeights ==
    [acyclicity |-> One, hierarchy |-> One, balance |-> One,
     granularity |-> One, redundancy |-> One, executability |-> One]

AcyclicityOnlyWeights ==
    [acyclicity |-> One, hierarchy |-> Zero, balance |-> Zero,
     granularity |-> Zero, redundancy |-> Zero, executability |-> Zero]

\* the weights a caller passes: the default, and two that do not sum to it
WeightSamples == { DEFAULT_WEIGHTS, OnesWeights, AcyclicityOnlyWeights }

InitAggregate ==
    /\ pc = "aggregate"
    /\ currentTree \in {<<Node("root", 0, <<>>)>>}
    /\ site = "direct"
    /\ maxIterations = 0
    /\ targetTDQ = Zero
    /\ iteration = 0
    /\ history = <<>>
    /\ acyclicity \in {[score |-> s] : s \in {Zero, One}}
    /\ hierarchy \in {[score |-> s] : s \in ScoresAround(Rat(7, 10))}
    /\ balance \in {[score |-> s] : s \in ScoresAround(Rat(5, 10))}
    /\ embeddings = <<>>
    /\ redundancy \in {[score |-> s] : s \in ScoresAround(Rat(8, 10))}
    /\ scores = <<>>
    /\ efforts = <<>>
    /\ granularity \in {[score |-> s] : s \in ScoresAround(Rat(6, 10))}
    /\ ratings = <<>>
    /\ response = <<>>
    /\ executability \in {[score |-> s] : s \in ScoresAround(Rat(6, 10))}
    /\ weights \in WeightSamples
    /\ tdqResult = None
    /\ refineReq = None
    /\ result = None
    /\ nCalls = NoCalls
    /\ env = NoEnv

NextAggregate == Aggregate

SpecAggregate == InitAggregate /\ [][NextAggregate]_vars

Terminated == pc \in {"done", "failed"}

\* every step of the run is the continuation of the single flow of control:
\* a call that was issued returns or rejects, a synchronous step completes
FairSpec == Spec /\ WF_vars(Next)

----------------------------------------------------------------------------
(* Properties *)

Returned == pc = "done"
Failed == "error" \in DOMAIN result
LastEntry == history[Len(history)]

\* C1: the run stops exactly on the Done condition: a refinement is requested
\* only after an evaluation below the target with iterations left, an
\* evaluation that reaches the target is the last one recorded and the run
\* returns with it, and a run that returns below the target has used up
\* maxIterations.
C1_StopsOnDoneCondition ==
    /\ pc = "refineTaskTree" =>
            /\ RLt(tdqResult.score, targetTDQ)
            /\ iteration + 1 < maxIterations
    /\ \A k \in 1..Len(history) :
            RGe(history[k].tdq, targetTDQ) => k = Len(history) /\ Returned
    /\ Returned =>
            \/ RGe(result.finalTDQ.score, targetTDQ)
            \/ iteration = maxIterations
    /\ Returned /\ iteration < maxIterations =>
            /\ RGe(LastEntry.tdq, targetTDQ)
            /\ result.iterations = iteration + 1

C1_Witness ==
    /\ Returned
    /\ Len(history) = 2
    /\ REq(LastEntry.tdq, targetTDQ)
    /\ RLt(history[1].tdq, targetTDQ)
    /\ nCalls.refine = 1

\* C2: on every successful return (of a run configured with at least one
\* iteration) the history holds one entry per computeTDQ evaluation, and the
\* returned TDQResult is the one of the last entry.
C2_HistoryRecordsEveryEvaluation ==
    Returned /\ maxIterations >= 1 =>
        /\ Len(result.history) = nCalls.computeTDQ
        /\ result.finalTDQ.score = result.history[Len(result.history)].tdq
        /\ result.finalTDQ.issues = result.history[Len(result.history)].issues

\* C3: the k-th history entry carries iteration number k, and the returned
\* iteration count is the number of history entries.
C3_HistoryInIterationOrder ==
    /\ \A k \in 1..Len(history) : history[k].iteration = k
    /\ Returned =>
            /\ result.history = history
            /\ result.iterations = Len(result.history)

C3_Witness ==
    /\ Returned
    /\ maxIterations = MaxIter
    /\ Len(result.history) = MaxIter
    /\ RLt(LastEntry.tdq, targetTDQ)

\* C4: every run ends (Done or failed), after at most maxIterations
\* refinements and maxIterations + 1 evaluations.
C4_Terminates ==
    /\ [](nCalls.refine <= maxIterations)
    /\ [](nCalls.computeTDQ <= maxIterations + 1)
    /\ <>Terminated

C4_Witness ==
    /\ Returned
    /\ maxIterations = MaxIter
    /\ nCalls.computeTDQ = maxIterations + 1
    /\ \A k \in 1..Len(history) : RLt(history[k].tdq, targetTDQ)
    /\ RLt(result.finalTDQ.score, targetTDQ)

\* C5: once a call has rejected the run is over: no further call is issued,
\* nothing is evaluated or recorded, no OptimizationResult is returned; a
\* failed generation is followed by no evaluation.
C5_FailFast ==
    /\ [](Failed => pc = "failed")
    /\ [](Failed /\ currentTree = NoTree =>
            nCalls = [NoCalls EXCEPT !.generate = 1])
    /\ [][Failed => /\ nCalls' = nCalls
                    /\ history' = history
                    /\ result' = result]_vars

C5_Witness ==
    /\ Failed
    /\ result.error = "call rejected"
    /\ nCalls.refine = 1
    /\ nCalls.computeTDQ = 1
    /\ Len(history) = 1

\* C6: a refinement request carries the tree just evaluated with the issues
\* and the granularity, executability and redundancy scores of that
\* evaluation; its answer replaces the tree, increments the counter and is
\* evaluated inside the loop; with maxIterations >= 1 the returned iteration
\* count is the number of refinement calls plus one.
C6_Refinement ==
    /\ [](pc = "refineTaskTree" =>
            /\ refineReq.tree = currentTree
            /\ tdqResult.breakdown.acyclicity = computeAcyclicity(currentTree)
            /\ LastEntry.tdq = tdqResult.score
            /\ refineReq.issues = LastEntry.issues
            /\ refineReq.scores.granularity
                 = tdqResult.breakdown.granularity.score
            /\ refineReq.scores.executability
                 = tdqResult.breakdown.executability.score
            /\ refineReq.scores.redundancy
                 = tdqResult.breakdown.redundancy.score)
    /\ [](Returned /\ maxIterations >= 1 =>
            result.iterations = nCalls.refine + 1)
    /\ [][pc = "refineTaskTree" /\ ~Failed' =>
            /\ pc' = "computeTDQ"
            /\ site' = "loop"
            /\ iteration' = iteration + 1
            /\ currentTree' \in TreePool]_vars

C6_Witness ==
    /\ Returned
    /\ nCalls.refine = 1
    /\ result.iterations = 2
    /\ refineReq.tree # result.finalTree
    /\ refineReq.scores.granularity # refineReq.scores.executability

Evaluated == pc = "computeRedundancy"

\* the merged graph: parent -> child, and node -> dependency in the tree
MergedEdges(t) ==
    UNION {{<<t[i].id, c>> : c \in SeqToSet(ChildIds(t, i))} : i \in DOMAIN t}
    \cup {e \in UsedIds(t) \X UsedIds(t) :
            \E i \in DOMAIN t : t[i].id = e[1] /\ e[2] \in SeqToSet(t[i].deps)}

\* a finite directed graph has a cycle iff some non-empty set of vertices
\* has, from each of its vertices, an edge back into the set
HasDirectedCycle(t) ==
    Let(MergedEdges(t), LAMBDA edges :
        \E S \in SUBSET UsedIds(t) :
            /\ S # {}
            /\ \A u \in S : \E v \in S : <<u, v>> \in edges)

SelfDependency == <<Node("root", 0, <<"root">>)>>
MutualSiblings ==
    <<Node("root", 0, <<>>), Node("c1", 1, <<"c2">>), Node("c2", 1, <<"c1">>)>>
ChildOnParent == <<Node("root", 0, <<>>), Node("c1", 1, <<"root">>)>>
SiblingOnSibling ==
    <<Node("root", 0, <<>>), Node("c1", 1, <<>>), Node("c2", 1, <<"c1">>)>>

\* C7: with unique ids Acyclicity is 0 exactly when the merged graph has a
\* directed cycle and 1 otherwise; the self-dependency, the mutual siblings
\* and the child depending on its parent give 0, c2 depending on c1 gives 1.
C7_AcyclicityIffNoCycle ==
    Evaluated /\ UniqueIds(currentTree) =>
        /\ acyclicity.score =
             (IF HasDirectedCycle(currentTree) THEN Zero ELSE One)
        /\ acyclicity.details.hasCycle = HasDirectedCycle(currentTree)
        /\ currentTree \in {SelfDependency, MutualSiblings, ChildOnParent}
              => acyclicity.score = Zero
        /\ currentTree = SiblingOnSibling => acyclicity.score = One

C7_Witness ==
    /\ Evaluated
    /\ currentTree = MutualSiblings
    /\ acyclicity.score = Zero

\* C8: a tree without dependencies has Acyclicity 1, also with repeated ids.
C8_NoDependenciesAcyclic ==
    Evaluated /\ NoDependencies(currentTree) => acyclicity.score = One

C8_Witness ==
    /\ Evaluated
    /\ NoDependencies(currentTree)
    /\ Len(currentTree) = MaxPlainNodes
    /\ currentTree[2].id = "root"
    /\ currentTree[3].id = "root"
    /\ acyclicity.score = One

\* C9: a tree without dependencies has Hierarchy Consistency 1, also when an
\* id occurs at two depths.
C9_NoDependenciesConsistent ==
    Evaluated /\ NoDependencies(currentTree) => hierarchy.score = One

\* C10 as stated: root with c1 and c2, c2 depending on c1, has Hierarchy
\* Consistency 1, all three edges consistent.
C10_ScenarioAllConsistent ==
    Evaluated /\ currentTree = SiblingOnSibling =>
        /\ hierarchy.score = One
        /\ hierarchy.details.consistentEdges = 3

\* C10 amended: that tree has Hierarchy Consistency 2/3: root->c1 and
\* root->c2 are consistent, c2->c1 joins two nodes of depth 1 and is not.
C10_ScenarioTwoThirds ==
    Evaluated /\ currentTree = SiblingOnSibling =>
        /\ hierarchy.score = Rat(2, 3)
        /\ hierarchy.details = [totalEdges |-> 3, consistentEdges |-> 2]
        /\ acyclicity.score = One

C10_Witness ==
    /\ Evaluated
    /\ currentTree = SiblingOnSibling
    /\ hierarchy.score = Rat(2, 3)

\* the dependency entries (node index, position) that name an id of the tree
ResolvedDeps(t) ==
    UNION {{<<i, k>> : k \in {j \in DOMAIN t[i].deps : t[i].deps[j] \in UsedIds(t)}} :
            i \in DOMAIN t}

\* the depth of the node named id, in a tree with unique ids
DepthOfId(t, id) == t[CHOOSE i \in DOMAIN t : t[i].id = id].depth

\* every node but the root is the target of one parent->child edge
EdgeCount(t) == (Len(t) - 1) + Cardinality(ResolvedDeps(t))

\* parent->child edges lead one level down; a dependency edge is consistent
\* when its target is strictly deeper than its source
ConsistentEdgeCount(t) ==
    (Len(t) - 1)
    + Cardinality({p \in ResolvedDeps(t) :
                     DepthOfId(t, t[p[1]].deps[p[2]]) > t[p[1]].depth})

\* C11: Hierarchy Consistency is consistentEdges / totalEdges (1 without
\* edges) over the parent->child edges and the resolved dependency entries,
\* an edge being consistent only when its target is strictly deeper: the
\* child depending on the root gives 1/2, the child depending on its sibling
\* 2/3; the score lies in [0,1].  (The counts are those of the tree when ids
\* are unique, as TaskNode requires.)
C11_HierarchyRatio ==
    Evaluated =>
        /\ RLe(Zero, hierarchy.score) /\ RLe(hierarchy.score, One)
        /\ UniqueIds(currentTree) =>
              IF EdgeCount(currentTree) = 0
              THEN hierarchy = [score |-> One]
              ELSE /\ hierarchy.details.totalEdges = EdgeCount(currentTree)
                   /\ hierarchy.details.consistentEdges
                        = ConsistentEdgeCount(currentTree)
                   /\ hierarchy.score = Rat(ConsistentEdgeCount(currentTree),
                                            EdgeCount(currentTree))
        /\ currentTree = ChildOnParent => hierarchy.score = Rat(1, 2)
        /\ currentTree = SiblingOnSibling => hierarchy.score = Rat(2, 3)

C11_Witness ==
    /\ Evaluated
    /\ currentTree = ChildOnParent
    /\ hierarchy.score = Rat(1, 2)
    /\ hierarchy.details = [totalEdges |-> 2, consistentEdges |-> 1]

\* the number of direct children of node i: the deeper nodes that follow it,
\* one level down, before the next node that is not deeper
ChildCount(t, i) ==
    Cardinality({j \in (i + 1)..Len(t) :
                   /\ t[j].depth = t[i].depth + 1
                   /\ \A k \in (i + 1)..j : t[k].depth > t[i].depth})

\* the child counts of the non-leaf nodes, in tree order
NonLeafCounts(t) ==
    SelectSeq([i \in 1..Len(t) |-> ChildCount(t, i)], LAMBDA n : n > 0)

\* the population variance: the mean of the squared deviations from the mean
PopulationVariance(counts) ==
    LET values == [k \in 1..Len(counts) |-> Rat(counts[k], 1)]
        mean == Average(values)
        deviation(k) == RSub(values[k], mean)
    IN  Average([k \in 1..Len(counts) |-> RMul(deviation(k), deviation(k))])

\* C12: a tree with fewer than two nodes that have children (a single node,
\* a root with leaf children only) has Hierarchy Balance 1.
C12_FewNonLeavesBalanced ==
    Evaluated /\ Len(NonLeafCounts(currentTree)) < 2 => balance.score = One

C12_Witness ==
    /\ Evaluated
    /\ Len(currentTree) >= 3
    /\ \A i \in 2..Len(currentTree) : currentTree[i].depth = 1
    /\ balance.score = One

\* C13: with two or more non-leaf nodes Hierarchy Balance is
\* 1 - min(1, v / 5), v the population variance of their child counts: 0 as
\* soon as v >= 5 (child counts 2, 10, 1), 1 when the counts are all equal,
\* in [0,1] always.  (The non-leaf nodes are those of the tree when ids are
\* unique, as TaskNode requires.)
C13_BalanceFromVariance ==
    /\ Evaluated => RLe(Zero, balance.score) /\ RLe(balance.score, One)
    /\ Evaluated /\ UniqueIds(currentTree)
                 /\ Len(NonLeafCounts(currentTree)) >= 2 =>
         LET counts == NonLeafCounts(currentTree)
             v == PopulationVariance(counts)
         IN  /\ balance.details.variance = v
             /\ balance.score = (IF RGe(v, Rat(VAR_MAX, 1)) THEN Zero
                                 ELSE RSub(One, RMul(v, Rat(1, VAR_MAX))))
             /\ (\A k \in DOMAIN counts : counts[k] = counts[1])
                   => balance.score = One
    /\ balanceOf(<<2, 10, 1>>).details.variance = Rat(146, 9)
    /\ balanceOf(<<2, 10, 1>>).score = Zero

C13_Witness ==
    /\ Evaluated
    /\ Len(NonLeafCounts(currentTree)) >= 2
    /\ RGe(balance.details.variance, Rat(VAR_MAX, 1))
    /\ balance.score = Zero

\* C14: the three structural metrics return a score in [0,1] on every tree,
\* whatever its dependencies (on the node itself, mutual, unresolved) and
\* with repeated ids, and the depth-first search enters no id twice.
C14_StructuralTotal ==
    Evaluated =>
        /\ \A m \in {acyclicity, hierarchy, balance} :
              RLe(Zero, m.score) /\ RLe(m.score, One)
        /\ \A i, j \in DOMAIN acyclicity.entered :
              acyclicity.entered[i] = acyclicity.entered[j] => i = j
        /\ SeqToSet(acyclicity.entered) \subseteq UsedIds(currentTree)

C14_Witness ==
    /\ Evaluated
    /\ ~UniqueIds(currentTree)
    /\ \E i \in DOMAIN currentTree :
          /\ currentTree[i].id \in SeqToSet(currentTree[i].deps)
          /\ "missing" \in SeqToSet(currentTree[i].deps)
    /\ acyclicity.score = Zero
    /\ RLe(Zero, hierarchy.score) /\ RLe(hierarchy.score, One)
    /\ balance.score = One

\* computeTDQ, called on its own, has returned
Aggregated == pc = "returned"

\* C15: the composite score is the sum of the six scores, each multiplied by
\* the weight passed for it (the defaults being 0.10, 0.15, 0.10, 0.20, 0.10,
\* 0.25), so that scores and weights determine the result.
C15_WeightedSum ==
    /\ DEFAULT_WEIGHTS =
         [acyclicity |-> Rat(1, 10), hierarchy |-> Rat(3, 20),
          balance |-> Rat(1, 10), granularity |-> Rat(1, 5),
          redundancy |-> Rat(1, 10), executability |-> Rat(1, 4)]
    /\ Aggregated =>
         /\ tdqResult.weights = weights
         /\ tdqResult.score =
              RSum[<<RMul(weights.acyclicity, acyclicity.score),
                     RMul(weights.hierarchy, hierarchy.score),
                     RMul(weights.balance, balance.score),
                     RMul(weights.granularity, granularity.score),
                     RMul(weights.redundancy, redundancy.score),
                     RMul(weights.executability, executability.score)>>]
         /\ tdqResult.breakdown =
              [acyclicity |-> acyclicity, hierarchy |-> hierarchy,
               balance |-> balance, granularity |-> granularity,
               redundancy |-> redundancy, executability |-> executability]

C15_Witness ==
    /\ Aggregated
    /\ weights = AcyclicityOnlyWeights
    /\ acyclicity.score = One
    /\ hierarchy.score = Rat(7, 10)
    /\ tdqResult.score = One

\* C16: the composite score lies in [0,1] whatever non-negative weights the
\* caller passes.
C16_CompositeInUnitInterval ==
    Aggregated => RLe(Zero, tdqResult.score) /\ RLe(tdqResult.score, One)

\* the metrics in the order of their issues, each with its cutoff
IssueOrder ==
    <<"cycle", "hierarchy", "balance", "granularity", "redundancy",
      "executability">>

Warned(kind) ==
    CASE kind = "cycle" -> acyclicity.score = Zero
      [] kind = "hierarchy" -> RLt(hierarchy.score, Rat(7, 10))
      [] kind = "balance" -> RLt(balance.score, Rat(5, 10))
      [] kind = "granularity" -> RLt(granularity.score, Rat(6, 10))
      [] kind = "redundancy" -> RLt(redundancy.score, Rat(8, 10))
      [] kind = "executability" -> RLt(executability.score, Rat(6, 10))

\* C17: the issues are determined by the six scores alone: the cycle issue
\* iff Acyclicity is 0, a warning iff the score is strictly below 0.7, 0.5,
\* 0.6, 0.8, 0.6 for hierarchy, balance, granularity, redundancy,
\* executability; in that order, six at most.
C17_IssuesFromScores ==
    Aggregated =>
        /\ [k \in DOMAIN tdqResult.issues |-> tdqResult.issues[k].kind]
             = SelectSeq(IssueOrder, Warned)
        /\ Len(tdqResult.issues) <= 6

C17_Witness ==
    /\ Aggregated
    /\ weights = OnesWeights
    /\ acyclicity.score = One
    /\ hierarchy.score = Rat(7, 10)
    /\ balance.score = Rat(49, 100)
    /\ granularity.score = Rat(6, 10)
    /\ redundancy.score = Rat(79, 100)
    /\ executability.score = Rat(6, 10)
    /\ Len(tdqResult.issues) = 2
    /\ tdqResult.issues[1].kind = "balance"
    /\ tdqResult.issues[2].kind = "redundancy"

\* computeRedundancy has just returned its score
RedundancyScored == pc = "computeGranularity"

DotProduct(a, b) ==
    LET RECURSIVE upTo(_)
        upTo(i) == IF i = 0 THEN 0 ELSE a[i] * b[i] + upTo(i - 1)
    IN  upTo(Len(a))

\* the cosine of the angle of a and b is strictly greater than 4/5
CosineAboveFourFifths(a, b) ==
    /\ DotProduct(a, b) > 0
    /\ 25 * DotProduct(a, b) * DotProduct(a, b)
         > 16 * DotProduct(a, a) * DotProduct(b, b)

RedundantPairSet(embs) ==
    {pr \in (DOMAIN embs) \X (DOMAIN embs) :
        pr[1] < pr[2] /\ CosineAboveFourFifths(embs[pr[1]], embs[pr[2]])}

\* C18: Redundancy is 1, with no embedding requested, for a tree of fewer
\* than two nodes; otherwise, after one embedding per node, it is
\* 1 - redundantPairs / totalPairs with totalPairs = n(n-1)/2 and a pair
\* redundant only when its similarity is strictly greater than the
\* threshold; so it never grows with the set of redundant pairs, and lies in
\* [0,1].
C18_RedundancyRatio ==
    RedundancyScored =>
        LET n == Len(currentTree)
            total == (n * (n - 1)) \div 2
            k == Cardinality(RedundantPairSet(embeddings))
        IN  IF n < 2
            THEN /\ redundancy.score = One
                 /\ nCalls.embed = 0
                 /\ embeddings = <<>>
            ELSE /\ nCalls.embed = n
                 /\ Len(embeddings) = n
                 /\ redundancy.details.totalPairs = total
                 /\ redundancy.details.redundantPairs = k
                 /\ redundancy.score = RSub(One, Rat(k, total))
                 /\ RLe(Zero, redundancy.score)
                 /\ RLe(redundancy.score, One)

C18_Witness ==
    /\ RedundancyScored
    /\ embeddings = << <<4, 3>>, <<1, 0>>, <<1, 0>> >>
    /\ redundancy.details.totalPairs = 3
    /\ redundancy.details.redundantPairs = 1
    /\ redundancy.score = Rat(2, 3)

\* an effort estimate has just been scored
EffortJudged ==
    /\ response # <<>>
    /\ pc \in {"effort", "computeExecutability"}

\* the entry pushed to efforts for it
LastEffort ==
    IF pc = "effort" THEN efforts[Len(efforts)]
    ELSE granularity.details.efforts[Len(granularity.details.efforts)]

\* computeGranularity has just returned its score
GranularityScored == pc = "computeExecutability"

\* the estimate of the entry lies in the default ideal range
InIdealRange(entry) ==
    RLe(Rat(IDEAL_MIN, 1), entry.effort) /\ RLe(entry.effort, Rat(IDEAL_MAX, 1))

\* |e - 4.5| / 4.5
RangeDistance(entry) ==
    RMul(RAbs(RSub(entry.effort, Rat(9, 2))), Rat(2, 9))

RatingJudged ==
    /\ response # <<>>
    /\ pc \in {"exec", "aggregate"}

LastRating ==
    IF pc = "exec" THEN ratings[Len(ratings)]
    ELSE executability.details.ratings[Len(executability.details.ratings)]

\* the text, leading blanks and one sign removed
Unsigned1(text) ==
    LET t == trimStart[text]
    IN  IF t # <<>> /\ t[1] \in {"+", "-"} THEN Tail(t) ELSE t

\* the text begins with a decimal number
BeginsWithNumber(text) ==
    LET t == Unsigned1(text)
    IN  /\ t # <<>>
        /\ \/ t[1] \in Digits
           \/ t[1] = "." /\ Len(t) >= 2 /\ t[2] \in Digits

\* the text begins with an integer
BeginsWithInteger(text) ==
    LET t == Unsigned1(text)
    IN  t # <<>> /\ t[1] \in Digits

\* the leaves: the nodes not followed by a deeper node
LeafCount(t) ==
    Cardinality({i \in DOMAIN t : i = Len(t) \/ t[i + 1].depth <= t[i].depth})

\* C20: an answer that cannot be used never ends the evaluation: an effort
\* answer that is not a number scores 0.5, a rating that is not an integer
\* or is off the scale 1..5 scores 0.5, any other rating (rating - 1) / 4;
\* every leaf is still judged once by each metric, which returns the mean.
C20_FallbackHalf ==
    /\ EffortJudged /\ ~BeginsWithNumber(response[1]) =>
         LastEffort = [effort |-> Rat(-1, 1), score |-> Rat(1, 2)]
    /\ RatingJudged =>
         IF \/ ~BeginsWithInteger(response[1])
            \/ parseInt(trim(response[1])).n \notin 1..5
         THEN LastRating = [rating |-> 3, normalized |-> Rat(1, 2)]
         ELSE /\ LastRating.rating = parseInt(trim(response[1])).n
              /\ LastRating.normalized = Rat(LastRating.rating - 1, 4)
    /\ pc = "failed" => granularity = None /\ "error" \in DOMAIN result
    /\ GranularityScored =>
         /\ Len(granularity.details.efforts) = LeafCount(currentTree)
         /\ nCalls.effort = LeafCount(currentTree)
    /\ pc = "aggregate" =>
         /\ Len(executability.details.ratings) = LeafCount(currentTree)
         /\ nCalls.exec = LeafCount(currentTree)
         /\ nCalls.effort = LeafCount(currentTree)
         /\ granularity.score =
              Average([k \in DOMAIN granularity.details.efforts |->
                          granularity.details.efforts[k].score])
         /\ executability.score =
              Average([k \in DOMAIN executability.details.ratings |->
                          executability.details.ratings[k].normalized])

C20_Witness ==
    /\ pc = "aggregate"
    /\ response = << <<"5">> >>
    /\ granularity.details.efforts =
         << [effort |-> Rat(-1, 1), score |-> Rat(1, 2)],
            [effort |-> Rat(4, 1), score |-> One] >>
    /\ granularity.score = Rat(3, 4)
    /\ executability.details.ratings =
         << [rating |-> 3, normalized |-> Rat(1, 2)],
            [rating |-> 5, normalized |-> One] >>
    /\ executability.score = Rat(3, 4)

\* two of the vectors differ in length
UnequalLengths(embs) ==
    \E i, j \in DOMAIN embs : Len(embs[i]) # Len(embs[j])

\* C21: when two of the embeddings returned for a tree of two or more nodes
\* differ in length, computeRedundancy fails instead of returning a score:
\* the evaluation ends there without a granularity or executability call,
\* and the run fails without a result; embeddings of one length never fail.
C21_LengthMismatchFails ==
    /\ [][/\ pc = "embed"
          /\ Len(embeddings') = Len(currentTree)
          /\ UnequalLengths(embeddings')
          => /\ pc' = "failed"
             /\ result' = [error |-> "Vectors must have the same length"]
             /\ redundancy' = redundancy
             /\ tdqResult' = tdqResult
             /\ nCalls' = nCalls]_vars
    /\ [][/\ pc = "embed"
          /\ Len(embeddings') = Len(currentTree)
          /\ ~UnequalLengths(embeddings')
          => /\ pc' = "computeGranularity"
             /\ "score" \in DOMAIN redundancy']_vars
    /\ [][pc = "failed" => pc' = "failed" /\ result' = result]_vars

C21_Witness ==
    /\ pc = "failed"
    /\ result = [error |-> "Vectors must have the same length"]
    /\ embeddings = << <<1, 0>>, <<1>> >>
    /\ nCalls.embed = 2
    /\ nCalls.effort = 0
    /\ nCalls.exec = 0

\* every node has an id, a title and a children sequence
WellFormed(t) == \A i \in DOMAIN t : Lacks(t[i]) = {}

\* C22: generation and refinement give a well-formed tree or fail as a
\* malformed response: a payload that parses but is not tree-shaped is
\* rejected before any metric is computed and never reaches computeTDQ.
C22_OnlyWellFormedTrees ==
    /\ currentTree # NoTree => WellFormed(currentTree)
    /\ nCalls.computeTDQ > 0 => WellFormed(currentTree)
    /\ Returned => WellFormed(result.finalTree)

\* cleanAndParseJSON has returned or thrown
ParseEnded == pc \in {"parsed", "failed"}

\* the response without its fence marks
Unfenced(raw) == SelectSeq(raw, LAMBDA c : c \notin {"fence json", "fence"})

\* the well-formed objects and arrays of the text that lie in no other
Payloads(text) ==
    LET found == {p \in (DOMAIN text) \X (DOMAIN text) :
                    /\ p[1] < p[2]
                    /\ text[p[1]] \in {"{", "["}
                    /\ JSONParses(SubSeq(text, p[1], p[2]))}
    IN  {p \in found :
            ~\E q \in found : q # p /\ q[1] <= p[1] /\ p[2] <= q[2]}

Openers(text) == {i \in DOMAIN text : text[i] \in {"{", "["}}
Closers(text) == {i \in DOMAIN text : text[i] \in {"}", "]"}}

\* the text from the first opening to the last closing delimiter is there
\* and well-formed
DelimitedWellFormed(text) ==
    /\ Openers(text) # {}
    /\ Closers(text) # {}
    /\ LET first == CHOOSE i \in Openers(text) : \A j \in Openers(text) : i <= j
           last == CHOOSE i \in Closers(text) : \A j \in Closers(text) : j <= i
       IN  first < last /\ JSONParses(SubSeq(text, first, last))

\* C23: the payload is the text from the first opening to the last closing
\* delimiter once the fences are removed: a response that holds one
\* well-formed object or array amid prose or fences yields that payload; a
\* response without an opening or a closing delimiter, or whose delimited
\* text is not well-formed, fails.
C23_PayloadExtraction ==
    ParseEnded =>
        LET text == Unfenced(response[1])
        IN  /\ Cardinality(Payloads(text)) = 1 =>
                 LET p == CHOOSE p \in Payloads(text) : TRUE
                 IN  result = [payload |-> SubSeq(text, p[1], p[2])]
            /\ ~DelimitedWellFormed(text) => "error" \in DOMAIN result

\* the external calls issued so far
TotalCalls ==
    nCalls.generate + nCalls.embed + nCalls.effort + nCalls.exec
        + nCalls.refine

\* the answers received so far by the metric that is being computed
Received ==
    CASE pc = "embed" -> Len(embeddings)
      [] pc = "effort" -> Len(scores)
      [] pc = "exec" -> Len(ratings)
      [] OTHER -> 0

\* at most one call per step, issued only when the call that was awaited,
\* if any, has returned in that step; a call is awaited exactly in the call
\* states
CallsOneAtATime ==
    /\ [][/\ TotalCalls' <= TotalCalls + 1
          /\ TotalCalls' = TotalCalls + 1 => pc' \in CallStates
          /\ TotalCalls' = TotalCalls + 1 /\ pc \in CallStates
                => pc' = pc /\ Len(embeddings') + Len(scores') + Len(ratings')
                                 = Received + 1]_vars
    /\ [][pc = "computeTDQ" => TotalCalls' = TotalCalls]_vars

\* embeddings, then effort estimates, then ratings, after the structural
\* metrics; the call awaited is the one for the next node or leaf
PhasesInOrder ==
    /\ pc \in {"embed", "effort", "exec"}
          => /\ "score" \in DOMAIN acyclicity
             /\ "score" \in DOMAIN hierarchy
             /\ "score" \in DOMAIN balance
    /\ pc = "embed"
          => /\ Len(embeddings) < Len(currentTree)
             /\ nCalls.embed = Len(embeddings) + 1
             /\ nCalls.effort = 0 /\ nCalls.exec = 0
    /\ pc = "effort"
          => /\ "score" \in DOMAIN redundancy
             /\ Len(scores) < Len(getLeafNodes(currentTree))
             /\ nCalls.effort = Len(scores) + 1
             /\ nCalls.exec = 0
    /\ pc = "exec"
          => /\ "score" \in DOMAIN granularity
             /\ Len(ratings) < Len(getLeafNodes(currentTree))
             /\ nCalls.exec = Len(ratings) + 1
    /\ pc \in {"computeExecutability", "exec", "aggregate", "returned"}
          => nCalls.effort = Len(getLeafNodes(currentTree))
    /\ pc \in {"aggregate", "returned"}
          => nCalls.exec = Len(getLeafNodes(currentTree))

\* C24 (as stated): within one evaluation the calls are issued one at a
\* time, a call only after the previous one has returned, in the order
\* structural metrics (no call), one embedding per node, one effort estimate
\* per leaf, one rating per leaf, all in pre-order.
C24_OneEmbeddingPerNode ==
    /\ CallsOneAtATime
    /\ [](PhasesInOrder)
    /\ [](pc \in {"computeGranularity", "effort", "computeExecutability",
                  "exec", "aggregate", "returned"}
             => nCalls.embed = Len(currentTree))

\* C24 (amended): as above, with one embedding call per node when the tree
\* has at least two nodes and no embedding call at all for a tree of one
\* node.
C24_CallsInOrder ==
    /\ CallsOneAtATime
    /\ [](PhasesInOrder)
    /\ [](pc \in {"computeGranularity", "effort", "computeExecutability",
                  "exec", "aggregate", "returned"}
             => nCalls.embed = IF Len(currentTree) < 2 THEN 0
                               ELSE Len(currentTree))

C24_Witness ==
    /\ pc = "returned"
    /\ Len(currentTree) = 3
    /\ nCalls = [NoCalls EXCEPT !.embed = 3, !.effort = 2, !.exec = 2,
                                !.computeTDQ = 1]

\* the pre-order position of the last node named id
LastOccurrence(t, id) ==
    CHOOSE i \in DOMAIN t :
        t[i].id = id /\ \A j \in DOMAIN t : t[j].id = id => j <= i

\* the ids in the order of their first occurrence in pre-order
FirstOccurrenceOrder(t) ==
    LET first == SelectSeq([i \in 1..Len(t) |-> i],
                           LAMBDA i : \A j \in 1..(i - 1) : t[j].id # t[i].id)
    IN  [k \in 1..Len(first) |-> t[first[k]].id]

\* the edges of the last occurrences: to their children, and to their
\* dependencies that name an id of the tree
LastOccurrenceEdges(t) ==
    UNION {LET i == LastOccurrence(t, id)
           IN  {<<id, c>> : c \in SeqToSet(ChildIds(t, i))}
               \cup {<<id, d>> : d \in SeqToSet(t[i].deps) \cap UsedIds(t)} :
           id \in UsedIds(t)}

\* the number of edge entries of the last occurrences
LastOccurrenceEdgeCount(t) ==
    LET ids == FirstOccurrenceOrder(t)
        RECURSIVE sum(_)
        sum(k) ==
            IF k = 0 THEN 0
            ELSE LET i == LastOccurrence(t, ids[k])
                 IN  ChildCount(t, i)
                     + Cardinality({j \in DOMAIN t[i].deps :
                                      t[i].deps[j] \in UsedIds(t)})
                     + sum(k - 1)
    IN  sum(Len(ids))

\* the child counts of the last occurrences that have children, in the
\* order of the ids' first occurrences
LastOccurrenceChildCounts(t) ==
    LET ids == FirstOccurrenceOrder(t)
    IN  SelectSeq([k \in 1..Len(ids) |->
                      ChildCount(t, LastOccurrence(t, ids[k]))],
                  LAMBDA n : n > 0)

\* C25: the two collections go through the tree in pre-order; of an id that
\* occurs more than once they keep the node and the depth of the last
\* occurrence, at the place of the first occurrence in the iteration order;
\* the structural metrics use the children and dependencies of the last
\* occurrence alone.
C25_LastOccurrenceWins ==
    Evaluated =>
        Let(currentTree, LAMBDA t :
        Let(getAllNodes(t), LAMBDA nodes :
        Let(getNodeDepths(t), LAMBDA depths :
        Let(FirstOccurrenceOrder(t), LAMBDA order :
            /\ nodes.keys = order
            /\ depths.keys = order
            /\ DOMAIN nodes.val = UsedIds(t)
            /\ DOMAIN depths.val = UsedIds(t)
            /\ \A id \in UsedIds(t) :
                  /\ nodes.val[id] = LastOccurrence(t, id)
                  /\ depths.val[id] = t[LastOccurrence(t, id)].depth
            /\ ~UniqueIds(t) =>
                  Let(LastOccurrenceEdges(t), LAMBDA edges :
                  Let(LastOccurrenceEdgeCount(t), LAMBDA total :
                  Let(LastOccurrenceChildCounts(t), LAMBDA counts :
                      /\ acyclicity.score = Zero
                            <=> \E S \in SUBSET UsedIds(t) :
                                   /\ S # {}
                                   /\ \A u \in S : \E v \in S :
                                         <<u, v>> \in edges
                      /\ IF total = 0 THEN hierarchy = [score |-> One]
                         ELSE hierarchy.details.totalEdges = total
                      /\ IF Len(counts) < 2 THEN balance.score = One
                         ELSE balance.details.childCounts = counts)))))))

\* an id that occurs twice, the occurrences at different depths, with
\* different dependencies and different numbers of children
C25_Witness ==
    /\ Evaluated
    /\ \E i, j \in DOMAIN currentTree :
          /\ i < j
          /\ currentTree[i].id = currentTree[j].id
          /\ currentTree[i].depth # currentTree[j].depth
          /\ currentTree[i].deps # currentTree[j].deps
          /\ LastOccurrence(currentTree, currentTree[i].id) = j
          /\ getNodeDepths(currentTree).val[currentTree[i].id]
                = currentTree[j].depth

\* the dependency entries that name no id of the tree
UnresolvedDeps(t) ==
    {p \in (DOMAIN t) \X (1..MaxFewDeps) :
        p[2] \in DOMAIN t[p[1]].deps /\ t[p[1]].deps[p[2]] \notin UsedIds(t)}

\* the tree before the unresolved dependency ids were added
WithoutUnresolved(t) ==
    [i \in DOMAIN t |->
        [t[i] EXCEPT !.deps = SelectSeq(@, LAMBDA d : d \in UsedIds(t))]]

\* C26: a dependency id that names no node of the tree is ignored by
\* Acyclicity and Hierarchy Consistency: no error, no edge in the merged
\* graph, no count in totalEdges; the tree with such ids added has the
\* scores of the tree without them.
C26_UnresolvedIgnored ==
    Evaluated =>
        /\ "score" \in DOMAIN acyclicity
        /\ "score" \in DOMAIN hierarchy
        /\ UnresolvedDeps(currentTree) # {} =>
              Let(currentTree, LAMBDA t :
              Let(WithoutUnresolved(currentTree), LAMBDA plain :
              Let(BuildGraph(t, getAllNodes(t)), LAMBDA adj :
                  /\ adj = BuildGraph(plain, getAllNodes(plain))
                  /\ \A id \in UsedIds(t) :
                        SeqToSet(adj[id]) \subseteq UsedIds(t)
                  /\ acyclicity = computeAcyclicity(plain)
                  /\ hierarchy = computeHierarchyConsistency(plain)
                  /\ "details" \in DOMAIN hierarchy
                        => hierarchy.details.totalEdges
                              = LastOccurrenceEdgeCount(plain))))

C26_Witness ==
    /\ Evaluated
    /\ Cardinality(UnresolvedDeps(currentTree)) = 1
    /\ Len(currentTree) = 2
    /\ WithoutUnresolved(currentTree) # currentTree
    /\ hierarchy = [score |-> One,
                    details |-> [totalEdges |-> 1, consistentEdges |-> 1]]
    /\ acyclicity.score = One

\* the parts of a TDQResult that the tree alone determines
ComputedFrom(tdq, t) ==
    /\ tdq.breakdown.acyclicity = computeAcyclicity(t)
    /\ tdq.breakdown.hierarchy = computeHierarchyConsistency(t)
    /\ tdq.breakdown.balance = computeHierarchyBalance(t)
    /\ tdq.breakdown.redundancy.details.totalPairs
          = (Len(t) * (Len(t) - 1)) \div 2
    /\ tdq.breakdown.granularity.details.leafCount = Len(getLeafNodes(t))
    /\ tdq.breakdown.executability.details.leafCount = Len(getLeafNodes(t))

\* C27: on a successful return the final TDQResult is the evaluation of the
\* returned tree, which is the tree generated or refined last; no
\* refinement follows the evaluation of the last history entry, and every
\* tree that replaces the current one is evaluated next.
C27_FinalTreeEvaluated ==
    /\ [](Returned =>
            /\ result.finalTree = currentTree
            /\ result.finalTDQ = tdqResult
            /\ ComputedFrom(result.finalTDQ, result.finalTree)
            /\ nCalls.refine = IF history = <<>> THEN 0
                               ELSE Len(history) - 1)
    /\ [][currentTree' # currentTree
            => /\ pc \in {"generateTaskTree", "refineTaskTree"}
               /\ pc' = "computeTDQ"]_vars
    /\ [][pc' = "done" /\ pc # "done"
            => /\ pc \in {"record", "returnFinal"}
               /\ "score" \in DOMAIN tdqResult
               /\ ComputedFrom(tdqResult, currentTree)
               /\ result'.finalTree = currentTree
               /\ result'.finalTDQ = tdqResult]_vars

C27_Witness ==
    /\ Returned
    /\ nCalls.refine = 1
    /\ Len(history) = 2
    /\ refineReq.tree = <<Node("root", 0, <<>>)>>
    /\ result.finalTree = <<Node("root", 0, <<>>), Node("c1", 1, <<"root">>)>>
    /\ result.finalTDQ.breakdown.acyclicity.score = Zero

\* the step the loop takes after an evaluation, from the score, the target
\* and the iteration counter alone
StopDecision ==
    [][pc = "record" =>
          LET reached == RGe(tdqResult.score, targetTDQ)
              last == iteration >= maxIterations - 1
          IN  /\ pc' = "done" <=> reached
              /\ pc' = "refineTaskTree" <=> ~reached /\ ~last
              /\ pc' = "computeTDQ" <=> ~reached /\ last
              /\ pc' = "done" => result'.finalTDQ.issues = tdqResult.issues]_vars

\* every history entry before the last is below the target
FirstReachingEvaluationReturns ==
    \A k \in 1..(Len(history) - 1) : RLt(history[k].tdq, targetTDQ)

CycleIssue == [kind |-> "cycle"]

\* C28 (as stated): the loop stops on the score against the target and on
\* the iteration counter, never on the issue list; it returns at the first
\* evaluation that reaches the target, issues or not; with the default
\* weights, acyclicity 0 and every other metric 1 give 0.90.
C28_CycleScoresNineTenths ==
    /\ StopDecision
    /\ [](FirstReachingEvaluationReturns)
    /\ [](weightedScore(Zero, One, One, One, One, One, DEFAULT_WEIGHTS)
             = Rat(9, 10))

\* C28 (amended): as above, acyclicity 0 and every other metric 1 giving
\* 0.80, which is at or above the target 0.75.
C28_StopIgnoresIssues ==
    /\ StopDecision
    /\ [](FirstReachingEvaluationReturns)
    /\ [](/\ weightedScore(Zero, One, One, One, One, One, DEFAULT_WEIGHTS)
               = Rat(4, 5)
          /\ RGe(Rat(4, 5), Rat(3, 4)))

\* a tree with the cycle issue returned as final at the first evaluation
C28_Witness ==
    /\ Returned
    /\ targetTDQ = Rat(3, 4)
    /\ result.finalTree = CycleBelowRoot
    /\ result.iterations = 1
    /\ result.finalTDQ.breakdown.acyclicity.score = Zero
    /\ result.finalTDQ.issues[1] = CycleIssue
    /\ RGe(result.finalTDQ.score, targetTDQ)

TwinLeaves ==
    <<Node("root", 0, <<>>), Node("c1", 1, <<>>), Node("c1", 1, <<>>)>>

\* C29: every tree has a leaf (a root without children is one), the branch
\* for no leaves is never taken, and an evaluation asks for one effort
\* estimate and one rating per leaf, two leaves of the same id being two
\* leaves.
C29_OneJudgmentPerLeaf ==
    /\ [](/\ LeafCount(currentTree) >= 1
          /\ Len(getLeafNodes(currentTree)) = LeafCount(currentTree))
    /\ [][pc = "computeGranularity" => pc' = "effort"]_vars
    /\ [][pc = "computeExecutability" => pc' = "exec"]_vars
    /\ [](pc \in {"computeExecutability", "exec", "aggregate", "returned"}
             => /\ granularity.details.leafCount = LeafCount(currentTree)
                /\ Len(granularity.details.efforts) = LeafCount(currentTree)
                /\ nCalls.effort = LeafCount(currentTree))
    /\ [](pc \in {"aggregate", "returned"}
             => /\ executability.details.leafCount = LeafCount(currentTree)
                /\ Len(executability.details.ratings) = LeafCount(currentTree)
                /\ nCalls.exec = LeafCount(currentTree))

C29_Witness ==
    /\ pc = "returned"
    /\ currentTree = TwinLeaves
    /\ nCalls.effort = 2
    /\ nCalls.exec = 2
    /\ tdqResult.breakdown.granularity.details.leafCount = 2
    /\ tdqResult.breakdown.executability.details.leafCount = 2

IsSet(value) == ~Falsy(value)

\* the baseUrl of a configuration, Undefined when it has none
BaseUrlOf(config) ==
    IF "baseUrl" \in DOMAIN config THEN config.baseUrl ELSE Undefined

\* C30: for provider 'openai' getLLMConfig reads the base URL from the
\* variable getEmbeddingConfig reads it from: baseUrl is OPENAI_BASE_URL
\* when that is set and absent otherwise, never the value of
\* OPENAI_API_KEY; without the required key the function fails and no
\* client is made.
C30_BaseUrlFromBaseUrlVariable ==
    /\ pc \in {"llmConfig", "llmClient"}
          /\ OrElse(env["LLM_PROVIDER"], "gemini") = "openai"
          => /\ BaseUrlOf(result)
                  = BaseUrlOf(getEmbeddingConfig(
                       [env EXCEPT !["EMBEDDING_PROVIDER"] = "openai"]))
             /\ IF IsSet(env["OPENAI_BASE_URL"])
                THEN /\ "baseUrl" \in DOMAIN result
                     /\ result.baseUrl = env["OPENAI_BASE_URL"]
                ELSE "baseUrl" \notin DOMAIN result
             /\ "baseUrl" \in DOMAIN result
                   => result.baseUrl # env["OPENAI_API_KEY"]
             /\ result.apiKey = env["OPENAI_API_KEY"]
    /\ OrElse(env["LLM_PROVIDER"], "gemini") = "openai"
          /\ ~IsSet(env["OPENAI_API_KEY"])
          => pc \in {"config", "failed", "embeddingConfig", "embeddingClient"}

============================================================================
